---- MODULE Spec2Model ----
(***************************************************************************)
(* Pinned WebSocket client (packages/app/{linux,windows}/plugins/          *)
(* pinned_websocket): one WebSocketConnection held by the                  *)
(* ConnectionManager, the thread that runs Connect(), the receive thread   *)
(* Connect() starts, and the caller thread, which issues Send() and        *)
(* RemoveConnection().  The two platform variants and the HAVE_OPENSSL     *)
(* build switch are build parameters fixed in the initial state.           *)
(***************************************************************************)
EXTENDS Integers, Sequences, FiniteSets, TLC

(***************************************************************************)
(* Bounds of the model.                                                    *)
(***************************************************************************)
\* number of inbound frames the server sends after the handshake
MaxFrames == 1
\* number of Send/RemoveConnection calls the caller thread issues
MaxCalls == 2
\* number of CreateConnection calls made after the one of the connection
MaxCreates == 2

(***************************************************************************)
(* std::string as a sequence of one-character strings.                     *)
(***************************************************************************)
npos == -1

Digits == <<"0", "1", "2", "3", "4", "5", "6", "7", "8", "9">>

IsDigit(c) == \E i \in 1..Len(Digits) : Digits[i] = c

DigitVal(c) == (CHOOSE i \in 1..Len(Digits) : Digits[i] = c) - 1

Min(a, b) == IF a <= b THEN a ELSE b

\* std::string::substr(pos, n), pos counted from 0, pos <= size
Substr(s, pos, n) == SubSeq(s, pos + 1, Min(pos + n, Len(s)))

\* std::string::substr(pos)
SubstrFrom(s, pos) == SubSeq(s, pos + 1, Len(s))

\* std::string::find(char): index from 0 of the first occurrence, or npos
Find(s, c) ==
  IF \E i \in 1..Len(s) : s[i] = c
  THEN (CHOOSE i \in 1..Len(s) : s[i] = c /\ \A j \in 1..(i - 1) : s[j] # c) - 1
  ELSE npos

INT_MAX == 2147483647

RECURSIVE DigitsValue(_, _)
\* value of the leading run of digits of s, accumulated from acc; npos when it
\* exceeds INT_MAX
DigitsValue(s, acc) ==
  IF s = <<>> \/ ~IsDigit(Head(s)) THEN acc
  ELSE IF acc > (INT_MAX - DigitVal(Head(s))) \div 10 THEN npos
  ELSE DigitsValue(Tail(s), acc * 10 + DigitVal(Head(s)))

\* std::stoi: converts the leading digits; throws std::invalid_argument when
\* there is none and std::out_of_range when the value does not fit an int
Stoi(s) ==
  IF s = <<>> \/ ~IsDigit(Head(s)) THEN [throws |-> TRUE, value |-> 0]
  ELSE IF DigitsValue(s, 0) = npos THEN [throws |-> TRUE, value |-> 0]
  ELSE [throws |-> FALSE, value |-> DigitsValue(s, 0)]

WSS == <<"w", "s", "s", ":", "/", "/">>
WS == <<"w", "s", ":", "/", "/">>

\* what follows the scheme prefix, with the values the prefix sets
UrlScheme(url) ==
  IF Substr(url, 0, 6) = WSS
  THEN [ok |-> TRUE, use_tls |-> TRUE, port |-> 443, rest |-> SubstrFrom(url, 6)]
  ELSE IF Substr(url, 0, 5) = WS
  THEN [ok |-> TRUE, use_tls |-> FALSE, port |-> 80, rest |-> SubstrFrom(url, 5)]
  ELSE [ok |-> FALSE, use_tls |-> TRUE, port |-> 443, rest |-> <<>>]

UrlPath(rest) ==
  IF Find(rest, "/") # npos THEN SubstrFrom(rest, Find(rest, "/")) ELSE <<"/">>

UrlAuthority(rest) ==
  IF Find(rest, "/") # npos THEN Substr(rest, 0, Find(rest, "/")) ELSE rest

\* WebSocketConnection::ParseUrl: result "ok", "invalid" (returns false) or
\* "throws" (std::stoi threw), and the fields it assigns
ParseUrl(url) ==
  LET sch == UrlScheme(url)
      auth == UrlAuthority(sch.rest)
      pp == Find(auth, ":")
      host == IF pp # npos THEN Substr(auth, 0, pp) ELSE auth
      num == IF pp # npos THEN Stoi(SubstrFrom(auth, pp + 1))
             ELSE [throws |-> FALSE, value |-> sch.port]
  IN  IF ~sch.ok
      THEN [result |-> "invalid", use_tls |-> TRUE, port |-> 443,
            host |-> <<>>, path |-> <<>>]
      ELSE IF num.throws
      THEN [result |-> "throws", use_tls |-> sch.use_tls, port |-> sch.port,
            host |-> host, path |-> UrlPath(sch.rest)]
      ELSE [result |-> IF host # <<>> THEN "ok" ELSE "invalid",
            use_tls |-> sch.use_tls, port |-> num.value,
            host |-> host, path |-> UrlPath(sch.rest)]


(***************************************************************************)
(* Certificates, pins and the handshake key.                               *)
(***************************************************************************)
\* the public keys of the certificates a server may present; "nokey" is a
\* certificate whose public key X509_get_pubkey cannot extract
PubKeys == {"keyA", "keyB", "nokey"}

\* base64(SHA-256(DER(SPKI))) of a public key: distinct keys, distinct digests
SpkiDigest(key) == IF key = "keyA" THEN "pinA" ELSE "pinB"

\* WebSocketConnection::CalculateSpkiPin
CalculateSpkiPin(cert) == IF cert = "nokey" THEN "" ELSE SpkiDigest(cert)

\* variant: any certificate is accepted when pins are configured
VerifyCertificatePins_AnyPin(cert, pins) == pins # <<>>

\* WebSocketConnection::VerifyCertificatePins: exact comparison with each pin
VerifyCertificatePins(cert, pins) ==
  \E i \in 1..Len(pins) : CalculateSpkiPin(cert) = pins[i]

RECURSIVE ChainMatch(_, _, _)
\* the loop over SSL_get_peer_cert_chain: first match from index i on
ChainMatch(chain, pins, i) ==
  IF i > Len(chain) THEN FALSE
  ELSE IF VerifyCertificatePins(chain[i], pins) THEN TRUE
  ELSE ChainMatch(chain, pins, i + 1)

\* the pinning block of PerformTlsHandshake, for a peer that sent a certificate:
\* the leaf first, then the chain the TLS library returns
PinMatched(chain, pins) ==
  \/ VerifyCertificatePins(chain[1], pins)
  \/ ChainMatch(chain, pins, 1)

RECURSIVE PinCalls(_, _, _)
\* number of CalculateSpkiPin calls the chain loop makes from index i on
PinCalls(chain, pins, i) ==
  IF i > Len(chain) THEN 0
  ELSE IF VerifyCertificatePins(chain[i], pins) THEN 1
  ELSE 1 + PinCalls(chain, pins, i + 1)

\* number of fingerprints the pinning block computes
FingerprintsComputed(chain, pins) ==
  IF VerifyCertificatePins(chain[1], pins) THEN 1 ELSE 1 + PinCalls(chain, pins, 1)

\* the 16 random bytes of GenerateWebSocketKey, base64-encoded
WsKeys == {"key1", "key2"}

\* base64(SHA-1(key + "258EAFA5-E914-47DA-95CA-C5AB0DC85B11"))
ExpectedAccept(key) == IF key = "key1" THEN "accept1" ELSE "accept2"

(***************************************************************************)
(* Inputs.                                                                 *)
(***************************************************************************)
Urls ==
  { <<"w", "s", "s", ":", "/", "/", "h", ":", "8", "/", "c">>,
    <<"w", "s", ":", "/", "/", "h">>,
    <<"h", "t", "t", "p", ":", "/", "/", "x">>,
    <<"w", "s", "s", ":", "/", "/", "/", "c">>,
    <<"w", "s", ":", "/", "/", "h", ":", "x">> }

PinSets == { <<>>, <<"pinC", "pinA">> }

\* peer chains as SSL_get_peer_cert_chain returns them, leaf first (the default
\* cipher list has no anonymous suite, so a peer always sends a certificate)
Chains == { <<"keyA">>, <<"keyB", "keyA">>, <<"keyB">>, <<"nokey", "keyB">> }

Payloads == {"p"}

\* opcodes of inbound frames: text, binary, close, ping, pong, and one unknown
Opcodes == {1, 2, 8, 9, 10, 3}

\* the thread Connect runs on, the receive thread, the platform thread of the
\* send and close handlers, and one more client thread of the manager
Threads == {"conn", "recv", "main", "aux"}

ConnId == "id1"

VARIABLES
  platform,        \* "linux" or "windows": which variant of the sources is built
  have_openssl,    \* the HAVE_OPENSSL build switch
  url_, pins_,     \* constructor arguments
  host_, port_, path_, use_tls_,
  socket_fd_,      \* "invalid" (-1 / INVALID_SOCKET) or "open"
  ssl_ctx_, ssl_,  \* "null" or "live"
  is_connected_, should_stop_,
  receive_thread_, \* "none" (not joinable), "joinable", "joined", "detached"
  send_mutex_,     \* "free" or the thread holding it
  connections_,    \* ConnectionManager::connections_: the identifiers it holds
  mutex_,          \* ConnectionManager::mutex_: "free" or the thread holding it
  destroyed,       \* the WebSocketConnection object has been destroyed
  issued,          \* the identifiers CreateConnection has returned, in order
  new_id,          \* connection_id of the CreateConnection call in progress
  pc,              \* position of each thread
  closeRet,        \* where each thread continues after Close() returns
  ws_key,          \* the key PerformWebSocketHandshake generated
  cur,             \* the frame ReadFrame returned to the receive loop
  peer_chain,      \* the chain SSL_get_peer_cert_chain returned
  peer_verify,     \* what verification of the peer chain found: "ok", "chain"
  events,          \* the events passed to callback_, in order
  wire,            \* what was written to the transport, in order
  framesRead,      \* inbound frames consumed so far
  calls,           \* caller operations issued so far
  sendRet,         \* result of the caller's last Send: "none", "true", "false"
  stages,          \* the stages Connect has run, in order
  pinChecks,       \* CalculateSpkiPin calls made
  threadsStarted,  \* receive threads started
  hazard,          \* a thread used the object after its destruction
  fn_call,         \* a helper function under evaluation, with its arguments
  fn_ret           \* what that function returned

vars ==
  << platform, have_openssl, url_, pins_, host_, port_, path_, use_tls_,
     socket_fd_, ssl_ctx_, ssl_, is_connected_, should_stop_, receive_thread_,
     send_mutex_, connections_, mutex_, destroyed, issued, new_id, pc, closeRet,
     ws_key, cur, peer_chain, peer_verify, events, wire, framesRead, calls, sendRet,
     stages, pinChecks, threadsStarted, hazard, fn_call, fn_ret >>

helper == << fn_call, fn_ret >>
build == << platform, have_openssl, url_, pins_ >>
parsed == << host_, port_, path_, use_tls_ >>
tlsPeer == << peer_chain, peer_verify >>
registry == << connections_, mutex_, destroyed, issued, new_id >>

NoFrame == [op |-> 0, payload |-> ""]

\* the state after ConnectionManager::CreateConnection: the constructor's
\* initialisers, the entry in the map, no thread running yet
Constructed ==
  /\ host_ = <<>> /\ port_ = 443 /\ path_ = <<>> /\ use_tls_ = TRUE
  /\ socket_fd_ = "invalid"
  /\ ssl_ctx_ = "null" /\ ssl_ = "null"
  /\ is_connected_ = FALSE /\ should_stop_ = FALSE
  /\ receive_thread_ = "none"
  /\ send_mutex_ = "free"
  /\ connections_ = {ConnId} /\ mutex_ = "free" /\ destroyed = FALSE
  /\ issued = << ConnId >> /\ new_id = ""
  /\ pc = [t \in Threads |-> IF t = "recv" THEN "none" ELSE "idle"]
  /\ closeRet = [t \in Threads |-> "none"]
  /\ ws_key = "" /\ cur = NoFrame
  /\ peer_chain = <<>> /\ peer_verify = "none"
  /\ events = <<>> /\ wire = <<>>
  /\ framesRead = 0 /\ calls = 0 /\ sendRet = "none"
  /\ stages = <<>> /\ pinChecks = 0 /\ threadsStarted = 0
  /\ hazard = FALSE

\* a helper function that is not being evaluated
NoCall == [fn |-> "none"]

Init ==
  /\ platform \in {"linux", "windows"}
  /\ have_openssl \in BOOLEAN
  /\ url_ \in Urls
  /\ pins_ \in PinSets
  /\ Constructed
  /\ fn_call = NoCall /\ fn_ret = NoCall

Event(type, data) == [type |-> type, data |-> data]

\* callback_(type, connection_id_, data)
Emit(type, data) == events' = Append(events, Event(type, data))

\* a step of a thread on the object: after the object's destruction it is a
\* use of freed memory
Touch == hazard' = (hazard \/ destroyed)

Goto(t, label) == pc' = [pc EXCEPT ![t] = label]


(***************************************************************************)
(* The transport.                                                          *)
(***************************************************************************)
\* SSL_write/send and SSL_read/recv can succeed only on an open socket
TransportLive == socket_fd_ = "open" /\ (ssl_ = "live" \/ ~use_tls_)

\* outcomes of one write of a whole buffer: all of it, a part, or nothing
WriteOutcomes == IF TransportLive THEN {"full", "partial", "fail"} ELSE {"fail"}

Written(op, payload, outcome) ==
  IF outcome = "fail" THEN wire
  ELSE Append(wire, [op |-> op, payload |-> payload, full |-> outcome = "full"])

\* what the TLS library's verification of the peer chain against the default
\* trust store finds: nothing wrong, or an error of the chain.  With the
\* default verify mode SSL_connect completes in both cases.
Verifications == {"ok", "chain"}

\* SSL_get_verify_result(ssl_) == X509_V_OK
VerifyResultOk(verify) == verify = "ok"

(***************************************************************************)
(* WebSocketConnection::Connect, on the thread the plugin starts for it.   *)
(***************************************************************************)
ConnectFail(data) ==
  /\ Emit("Error", data)
  /\ Goto("conn", "ret_false")

\* ParseUrl and the "Invalid URL" return; an exception of std::stoi leaves
\* Connect and the thread function, which ends the process
Connect_ParseUrl ==
  /\ pc["conn"] = "idle"
  /\ LET r == ParseUrl(url_) IN
       /\ host_' = r.host /\ port_' = r.port /\ path_' = r.path
       /\ use_tls_' = r.use_tls
       /\ IF r.result = "throws"
          THEN pc' = [t \in Threads |-> "aborted"] /\ events' = events
          ELSE IF r.result = "invalid"
          THEN ConnectFail("Invalid URL")
          ELSE Goto("conn", "dns") /\ events' = events
  /\ stages' = Append(stages, "parse")
  /\ Touch
  /\ UNCHANGED << helper, build, socket_fd_, ssl_ctx_, ssl_, is_connected_, should_stop_,
                  receive_thread_, send_mutex_, registry, closeRet, ws_key, cur,
                  tlsPeer, wire, framesRead, calls, sendRet, pinChecks,
                  threadsStarted >>

\* getaddrinfo
Connect_Resolve ==
  /\ pc["conn"] = "dns"
  /\ \E ok \in BOOLEAN :
       IF ok THEN Goto("conn", "tcp") /\ events' = events
       ELSE ConnectFail("DNS resolution failed")
  /\ stages' = Append(stages, "dns")
  /\ Touch
  /\ UNCHANGED << helper, build, parsed, socket_fd_, ssl_ctx_, ssl_, is_connected_,
                  should_stop_, receive_thread_, send_mutex_, registry, closeRet,
                  ws_key, cur, tlsPeer, wire, framesRead, calls, sendRet,
                  pinChecks, threadsStarted >>

\* variant: Connect goes from the TCP connect to the WebSocket handshake
\* without the TLS handshake
Connect_Tcp_SkipTls ==
  /\ pc["conn"] = "tcp"
  /\ \E ok \in BOOLEAN :
       IF ok
       THEN /\ socket_fd_' = "open"
            /\ Goto("conn", "ws_send")
            /\ events' = events
       ELSE /\ socket_fd_' = "invalid"
            /\ ConnectFail("Failed to connect to server")
  /\ stages' = Append(stages, "tcp")
  /\ Touch
  /\ UNCHANGED << helper, build, parsed, ssl_ctx_, ssl_, is_connected_, should_stop_,
                  receive_thread_, send_mutex_, registry, closeRet, ws_key, cur,
                  tlsPeer, wire, framesRead, calls, sendRet, pinChecks,
                  threadsStarted >>

\* the loop over the resolved addresses: socket, timeouts, connect
Connect_Tcp ==
  /\ pc["conn"] = "tcp"
  /\ \E ok \in BOOLEAN :
       IF ok
       THEN /\ socket_fd_' = "open"
            /\ Goto("conn", IF use_tls_ THEN "tls_setup" ELSE "ws_send")
            /\ events' = events
       ELSE /\ socket_fd_' = "invalid"
            /\ ConnectFail("Failed to connect to server")
  /\ stages' = Append(stages, "tcp")
  /\ Touch
  /\ UNCHANGED << helper, build, parsed, ssl_ctx_, ssl_, is_connected_, should_stop_,
                  receive_thread_, send_mutex_, registry, closeRet, ws_key, cur,
                  tlsPeer, wire, framesRead, calls, sendRet, pinChecks,
                  threadsStarted >>

\* variant: a failed TLS handshake leaves the socket open
TlsFail_SocketLeftOpen(type, data) ==
  /\ Emit(type, data)
  /\ ssl_' = "null" /\ ssl_ctx_' = "null"
  /\ socket_fd_' = socket_fd_
  /\ Goto("conn", "ret_false")

\* Connect after PerformTlsHandshake returned false: the event was emitted by
\* PerformTlsHandshake, which also freed what it had created
TlsFail(type, data) ==
  /\ Emit(type, data)
  /\ ssl_' = "null" /\ ssl_ctx_' = "null"
  /\ socket_fd_' = "invalid"
  /\ Goto("conn", "ret_false")

\* variant: the build without OpenSSL reports Error whatever the pins
NoTlsEvent_AlwaysError(pins) == Event("Error", "TLS not available")

\* the event of PerformTlsHandshake in a build without OpenSSL
NoTlsEvent(pins) ==
  IF pins # <<>>
  THEN Event("PinningFailed", "Certificate pinning requires OpenSSL")
  ELSE Event("Error", "TLS not available")

\* PerformTlsHandshake up to SSL_set_fd, or all of it in a build without OpenSSL
Connect_TlsSetup ==
  /\ pc["conn"] = "tls_setup"
  /\ IF ~have_openssl
     THEN TlsFail(NoTlsEvent(pins_).type, NoTlsEvent(pins_).data)
     ELSE \E outcome \in {"ok", "ctx", "paths", "ssl"} :
            /\ outcome = "paths" => platform = "linux"
            /\ CASE outcome = "ctx" -> TlsFail("Error", "Failed to create SSL context")
                 [] outcome = "paths" -> TlsFail("Error", "Failed to load CA certificates")
                 [] outcome = "ssl" -> TlsFail("Error", "Failed to create SSL object")
                 [] OTHER -> /\ ssl_ctx_' = "live" /\ ssl_' = "live"
                             /\ Goto("conn", "tls_connect")
                             /\ UNCHANGED << events, socket_fd_ >>
  /\ stages' = Append(stages, "tls")
  /\ Touch
  /\ UNCHANGED << helper, build, parsed, is_connected_, should_stop_, receive_thread_,
                  send_mutex_, registry, closeRet, ws_key, cur, tlsPeer, wire,
                  framesRead, calls, sendRet, pinChecks, threadsStarted >>

\* the certificate-verification check after SSL_connect: the Linux variant
\* tests SSL_get_verify_result, the Windows variant has no such test
VerificationRejects(verify) ==
  platform = "linux" /\ ~VerifyResultOk(verify)

\* variant: the pinning block without its test for an empty pin list
PinningOutcome_NeverSkip(chain, pins) ==
  IF chain = <<>> THEN "nocert"
  ELSE IF PinMatched(chain, pins) THEN "match"
  ELSE "mismatch"

\* the pinning block: "skip" when no pin is configured
PinningOutcome(chain, pins) ==
  IF pins = <<>> THEN "skip"
  ELSE IF chain = <<>> THEN "nocert"
  ELSE IF PinMatched(chain, pins) THEN "match"
  ELSE "mismatch"

\* PerformTlsHandshake from SSL_connect on: handshake, verification, pinning
Connect_TlsConnect ==
  /\ pc["conn"] = "tls_connect"
  /\ \E connectOk \in BOOLEAN, chain \in Chains, verify \in Verifications :
       IF ~connectOk
       THEN /\ TlsFail("Error", "TLS handshake failed")
            /\ UNCHANGED << tlsPeer, pinChecks, stages >>
       ELSE /\ peer_verify' = verify
            /\ IF VerificationRejects(verify)
               THEN /\ TlsFail("Error", "Certificate verification failed")
                    /\ UNCHANGED << peer_chain, pinChecks, stages >>
               ELSE LET o == PinningOutcome(chain, pins_) IN
                    /\ peer_chain' = IF o = "skip" THEN peer_chain ELSE chain
                    /\ pinChecks' = pinChecks +
                         (IF o \in {"match", "mismatch"}
                          THEN FingerprintsComputed(chain, pins_) ELSE 0)
                    /\ stages' = IF o = "skip" THEN stages ELSE Append(stages, "pin")
                    /\ CASE o = "nocert" ->
                              TlsFail("PinningFailed", "No server certificate received")
                         [] o = "mismatch" ->
                              TlsFail("PinningFailed", "Certificate pinning failed")
                         [] OTHER -> /\ Goto("conn", "ws_send")
                                     /\ UNCHANGED << events, ssl_, ssl_ctx_, socket_fd_ >>
  /\ Touch
  /\ UNCHANGED << helper, build, parsed, is_connected_, should_stop_, receive_thread_,
                  send_mutex_, registry, closeRet, ws_key, cur, wire, framesRead,
                  calls, sendRet, threadsStarted >>


\* the Close() call of Connect after PerformWebSocketHandshake returned false
HandshakeFail(data) ==
  /\ Emit("Error", data)
  /\ Goto("conn", "close_begin")
  /\ closeRet' = [closeRet EXCEPT !["conn"] = "ret_false"]

\* PerformWebSocketHandshake: the key and the upgrade request
Connect_WsSend ==
  /\ pc["conn"] = "ws_send"
  /\ \E key \in WsKeys, outcome \in WriteOutcomes :
       /\ wire' = Written("GET", "", outcome)
       /\ IF outcome = "fail"
          THEN /\ HandshakeFail("Failed to send WebSocket handshake")
               /\ ws_key' = ws_key
          ELSE /\ ws_key' = key
               /\ Goto("conn", "ws_recv")
               /\ UNCHANGED << events, closeRet >>
  /\ stages' = Append(stages, "ws")
  /\ Touch
  /\ UNCHANGED << helper, build, parsed, socket_fd_, ssl_ctx_, ssl_, is_connected_,
                  should_stop_, receive_thread_, send_mutex_, registry, cur,
                  tlsPeer, framesRead, calls, sendRet, pinChecks, threadsStarted >>

\* what one read of the response can return: the status line, then header
\* lines; a line is a sequence of pieces of text
StatusLines == { << "HTTP/1.1 101", " Switching Protocols" >>,
                 << "HTTP/1.1 400", " Bad Request" >> }
UpstreamLines == { << >>, << << "X-Upstream-Status: ", "HTTP/1.1 101" >> >> }
AcceptLines ==
  { << >> } \cup { << << "Sec-WebSocket-Accept: ", ExpectedAccept(k) >> >> : k \in WsKeys }
Responses ==
  { << st >> \o up \o ac : st \in StatusLines, up \in UpstreamLines, ac \in AcceptLines }

\* response.find(text) != npos: the text occurs somewhere in the response
ResponseFind(response, text) ==
  \E i \in 1..Len(response) : \E j \in 1..Len(response[i]) : response[i][j] = text

\* the checks of PerformWebSocketHandshake on the response it read
ResponseCheck(resp, key) ==
  IF ~ResponseFind(resp, "HTTP/1.1 101") THEN "WebSocket handshake failed"
  ELSE IF ~ResponseFind(resp, ExpectedAccept(key)) THEN "WebSocket accept key mismatch"
  ELSE "ok"

\* PerformWebSocketHandshake from the read on: received <= 0 is a failed or
\* empty read, otherwise resp is what was read
Connect_WsRecvRead(received, resp) ==
  /\ pc["conn"] = "ws_recv"
  /\ IF received <= 0
     THEN HandshakeFail("Failed to receive WebSocket handshake response")
     ELSE /\ TransportLive
          /\ IF ResponseCheck(resp, ws_key) = "ok"
             THEN Goto("conn", "connected") /\ UNCHANGED << events, closeRet >>
             ELSE HandshakeFail(ResponseCheck(resp, ws_key))
  /\ ws_key' = ""
  /\ Touch
  /\ UNCHANGED << build, parsed, socket_fd_, ssl_ctx_, ssl_, is_connected_,
                  should_stop_, receive_thread_, send_mutex_, registry, cur,
                  tlsPeer, wire, framesRead, calls, sendRet, stages, pinChecks,
                  threadsStarted >>

\* PerformWebSocketHandshake: the read of the response and its checks
Connect_WsRecv ==
  /\ \/ Connect_WsRecvRead(0, << >>)
     \/ \E resp \in Responses : Connect_WsRecvRead(1, resp)
  /\ UNCHANGED helper

\* the same step, keeping what the read returned
Connect_WsRecv_Traced ==
  /\ \/ Connect_WsRecvRead(0, << >>)
        /\ fn_ret' = [fn |-> "recv", received |-> 0, response |-> << >>, key |-> ws_key]
     \/ \E resp \in Responses :
          /\ Connect_WsRecvRead(1, resp)
          /\ fn_ret' = [fn |-> "recv", received |-> 1, response |-> resp, key |-> ws_key]
  /\ fn_call' = fn_call

\* variant: Connect sets the connected state without the Connected callback
Connect_Established_NoCallback ==
  /\ pc["conn"] = "connected"
  /\ is_connected_' = TRUE
  /\ Goto("conn", "start_thread")
  /\ Touch
  /\ UNCHANGED << helper, build, parsed, socket_fd_, ssl_ctx_, ssl_, should_stop_,
                  receive_thread_, send_mutex_, registry, closeRet, ws_key, cur,
                  tlsPeer, events, wire, framesRead, calls, sendRet, stages,
                  pinChecks, threadsStarted >>

\* is_connected_ = true and the Connected callback
Connect_Established ==
  /\ pc["conn"] = "connected"
  /\ is_connected_' = TRUE
  /\ Emit("Connected", "")
  /\ Goto("conn", "start_thread")
  /\ Touch
  /\ UNCHANGED << helper, build, parsed, socket_fd_, ssl_ctx_, ssl_, should_stop_,
                  receive_thread_, send_mutex_, registry, closeRet, ws_key, cur,
                  tlsPeer, wire, framesRead, calls, sendRet, stages, pinChecks,
                  threadsStarted >>

\* should_stop_ = false and the start of the receive thread; Connect returns true
Connect_StartThread ==
  /\ pc["conn"] = "start_thread"
  /\ should_stop_' = FALSE
  /\ receive_thread_' = "joinable"
  /\ threadsStarted' = threadsStarted + 1
  /\ pc' = [pc EXCEPT !["conn"] = "ret_true", !["recv"] = "loop"]
  /\ Touch
  /\ UNCHANGED << helper, build, parsed, socket_fd_, ssl_ctx_, ssl_, is_connected_,
                  send_mutex_, registry, closeRet, ws_key, cur, tlsPeer, events,
                  wire, framesRead, calls, sendRet, stages, pinChecks >>

(***************************************************************************)
(* WebSocketConnection::Close, on thread t.                                *)
(***************************************************************************)
Close_Begin(t) ==
  /\ pc[t] = "close_begin"
  /\ should_stop_' = TRUE
  /\ is_connected_' = FALSE
  /\ Goto(t, "close_joinable")
  /\ Touch
  /\ UNCHANGED << helper, build, parsed, socket_fd_, ssl_ctx_, ssl_, receive_thread_,
                  send_mutex_, registry, closeRet, ws_key, cur, tlsPeer, events,
                  wire, framesRead, calls, sendRet, stages, pinChecks,
                  threadsStarted >>

\* variant: Close sends its close frame and joins without testing joinable()
Close_Joinable_Always(t) ==
  /\ pc[t] = "close_joinable"
  /\ Goto(t, "close_lock")
  /\ Touch
  /\ UNCHANGED << helper, build, parsed, socket_fd_, ssl_ctx_, ssl_, is_connected_,
                  should_stop_, receive_thread_, send_mutex_, registry, closeRet,
                  ws_key, cur, tlsPeer, events, wire, framesRead, calls, sendRet,
                  stages, pinChecks, threadsStarted >>

\* if (receive_thread_.joinable())
Close_Joinable(t) ==
  /\ pc[t] = "close_joinable"
  /\ Goto(t, IF receive_thread_ = "joinable" THEN "close_lock" ELSE "close_teardown")
  /\ Touch
  /\ UNCHANGED << helper, build, parsed, socket_fd_, ssl_ctx_, ssl_, is_connected_,
                  should_stop_, receive_thread_, send_mutex_, registry, closeRet,
                  ws_key, cur, tlsPeer, events, wire, framesRead, calls, sendRet,
                  stages, pinChecks, threadsStarted >>

\* variant: Close writes its close frame without taking send_mutex_
Close_Lock_NoMutex(t) ==
  /\ pc[t] = "close_lock"
  /\ Goto(t, "close_frame")
  /\ Touch
  /\ UNCHANGED << helper, build, parsed, socket_fd_, ssl_ctx_, ssl_, is_connected_,
                  should_stop_, receive_thread_, send_mutex_, registry, closeRet,
                  ws_key, cur, tlsPeer, events, wire, framesRead, calls, sendRet,
                  stages, pinChecks, threadsStarted >>

\* std::lock_guard on send_mutex_ around SendFrame(0x08, "")
Close_Lock(t) ==
  /\ pc[t] = "close_lock"
  /\ send_mutex_ = "free"
  /\ send_mutex_' = t
  /\ Goto(t, "close_frame")
  /\ Touch
  /\ UNCHANGED << helper, build, parsed, socket_fd_, ssl_ctx_, ssl_, is_connected_,
                  should_stop_, receive_thread_, registry, closeRet, ws_key, cur,
                  tlsPeer, events, wire, framesRead, calls, sendRet, stages,
                  pinChecks, threadsStarted >>

\* variant: the lock_guard of the close frame stays held across the join
Close_Frame_KeepsLock(t) ==
  /\ pc[t] = "close_frame"
  /\ \E outcome \in WriteOutcomes : wire' = Written(8, "", outcome)
  /\ send_mutex_' = send_mutex_
  /\ IF t # "recv"
     THEN Goto(t, "close_join") /\ receive_thread_' = receive_thread_
     ELSE Goto(t, "close_teardown") /\ receive_thread_' = "detached"
  /\ Touch
  /\ UNCHANGED << helper, build, parsed, socket_fd_, ssl_ctx_, ssl_, is_connected_,
                  should_stop_, registry, closeRet, ws_key, cur, tlsPeer, events,
                  framesRead, calls, sendRet, stages, pinChecks, threadsStarted >>

\* variant: Close joins the receive thread whatever thread it runs on
Close_Frame_AlwaysJoins(t) ==
  /\ pc[t] = "close_frame"
  /\ \E outcome \in WriteOutcomes : wire' = Written(8, "", outcome)
  /\ send_mutex_' = "free"
  /\ Goto(t, "close_join") /\ receive_thread_' = receive_thread_
  /\ Touch
  /\ UNCHANGED << helper, build, parsed, socket_fd_, ssl_ctx_, ssl_, is_connected_,
                  should_stop_, registry, closeRet, ws_key, cur, tlsPeer, events,
                  framesRead, calls, sendRet, stages, pinChecks, threadsStarted >>

\* SendFrame(0x08, "") with its result ignored, then the choice of join or detach
Close_Frame(t) ==
  /\ pc[t] = "close_frame"
  /\ \E outcome \in WriteOutcomes : wire' = Written(8, "", outcome)
  /\ send_mutex_' = "free"
  /\ IF t # "recv"
     THEN Goto(t, "close_join") /\ receive_thread_' = receive_thread_
     ELSE Goto(t, "close_teardown") /\ receive_thread_' = "detached"
  /\ Touch
  /\ UNCHANGED << helper, build, parsed, socket_fd_, ssl_ctx_, ssl_, is_connected_,
                  should_stop_, registry, closeRet, ws_key, cur, tlsPeer, events,
                  framesRead, calls, sendRet, stages, pinChecks, threadsStarted >>

\* receive_thread_.join(): returns when the receive loop has ended; on a thread
\* object that another Close has detached meanwhile it throws std::system_error,
\* which nothing catches
Close_Join(t) ==
  /\ pc[t] = "close_join"
  /\ IF receive_thread_ = "joinable"
     THEN /\ pc["recv"] = "done"
          /\ receive_thread_' = "joined"
          /\ Goto(t, "close_teardown")
     ELSE /\ receive_thread_' = receive_thread_
          /\ pc' = [u \in Threads |-> "aborted"]
  /\ Touch
  /\ UNCHANGED << helper, build, parsed, socket_fd_, ssl_ctx_, ssl_, is_connected_,
                  should_stop_, send_mutex_, registry, closeRet, ws_key, cur,
                  tlsPeer, events, wire, framesRead, calls, sendRet, stages,
                  pinChecks, threadsStarted >>

\* SSL_shutdown/SSL_free, SSL_CTX_free, close(socket_fd_); Close returns
Close_Teardown(t) ==
  /\ pc[t] = "close_teardown"
  /\ ssl_' = "null" /\ ssl_ctx_' = "null"
  /\ socket_fd_' = "invalid"
  /\ Goto(t, closeRet[t])
  /\ Touch
  /\ UNCHANGED << helper, build, parsed, is_connected_, should_stop_, receive_thread_,
                  send_mutex_, registry, closeRet, ws_key, cur, tlsPeer, events,
                  wire, framesRead, calls, sendRet, stages, pinChecks,
                  threadsStarted >>


(***************************************************************************)
(* WebSocketConnection::ReceiveLoop, on the receive thread.                *)
(***************************************************************************)
\* while (!should_stop_ && is_connected_)
Recv_Loop ==
  /\ pc["recv"] = "loop"
  /\ Goto("recv", IF ~should_stop_ /\ is_connected_ THEN "read" ELSE "done")
  /\ Touch
  /\ UNCHANGED << helper, build, parsed, socket_fd_, ssl_ctx_, ssl_, is_connected_,
                  should_stop_, receive_thread_, send_mutex_, registry, closeRet,
                  ws_key, cur, tlsPeer, events, wire, framesRead, calls, sendRet,
                  stages, pinChecks, threadsStarted >>

\* what the peer and the network put before one ReadFrame call: the length
\* field and mask bit of a frame header, and the bytes that arrive before the
\* stream ends or the receive timeout expires; FrameLen is the payload length
FrameLen == 1
InboundData == [len7 : {FrameLen, 126, 127}, masked : BOOLEAN,
                avail : 0..(14 + FrameLen)]

ExtLenBytes(d) == IF d.len7 = 126 THEN 2 ELSE IF d.len7 = 127 THEN 8 ELSE 0

MaskBytes(d) == IF d.masked THEN 4 ELSE 0

\* ReadFrame: the read that comes short and makes it return false, or "none"
\* when the header, the extended length, the mask and the payload all arrive
ReadFrameFailsAt(d) ==
  IF d.avail < 2 THEN "header"
  ELSE IF d.avail < 2 + ExtLenBytes(d) THEN "extlen"
  ELSE IF d.avail < 2 + ExtLenBytes(d) + MaskBytes(d) THEN "mask"
  ELSE IF d.avail < 2 + ExtLenBytes(d) + MaskBytes(d) + FrameLen THEN "payload"
  ELSE "none"

\* variant: a failed read ends the loop without the Disconnected callback
Recv_ReadFailed_Silent ==
  /\ pc["recv"] = "read"
  /\ is_connected_' = (is_connected_ /\ should_stop_)
  /\ Goto("recv", "done")
  /\ Touch
  /\ UNCHANGED << helper, build, parsed, socket_fd_, ssl_ctx_, ssl_, should_stop_,
                  receive_thread_, send_mutex_, registry, closeRet, ws_key, cur,
                  tlsPeer, events, wire, framesRead, calls, sendRet, stages,
                  pinChecks, threadsStarted >>

\* variant: a payload that comes short is reported as an Error event
Recv_ReadFailed_AsError ==
  /\ pc["recv"] = "read"
  /\ \E d \in InboundData :
       /\ ReadFrameFailsAt(d) # "none"
       /\ IF ~should_stop_
          THEN /\ is_connected_' = FALSE
               /\ Emit(IF ReadFrameFailsAt(d) = "payload"
                       THEN "Error" ELSE "Disconnected", "")
          ELSE UNCHANGED << is_connected_, events >>
  /\ Goto("recv", "done")
  /\ Touch
  /\ UNCHANGED << helper, build, parsed, socket_fd_, ssl_ctx_, ssl_, should_stop_,
                  receive_thread_, send_mutex_, registry, closeRet, ws_key, cur,
                  tlsPeer, wire, framesRead, calls, sendRet, stages, pinChecks,
                  threadsStarted >>

\* ReadFrame returned false at one of its reads (a short read, a timeout, the
\* peer gone): the loop reports Disconnected unless a Close was requested, and
\* ends
Recv_ReadFailed ==
  /\ pc["recv"] = "read"
  /\ \E d \in InboundData : ReadFrameFailsAt(d) # "none"
  /\ IF ~should_stop_
     THEN is_connected_' = FALSE /\ Emit("Disconnected", "")
     ELSE UNCHANGED << is_connected_, events >>
  /\ Goto("recv", "done")
  /\ Touch
  /\ UNCHANGED << helper, build, parsed, socket_fd_, ssl_ctx_, ssl_, should_stop_,
                  receive_thread_, send_mutex_, registry, closeRet, ws_key, cur,
                  tlsPeer, wire, framesRead, calls, sendRet, stages, pinChecks,
                  threadsStarted >>

\* variant: a pong is delivered to the callback as a message
Recv_Dispatch_PongAsMessage(op, payload) ==
  CASE op \in {1, 2, 10} ->
         /\ Emit("Message", payload)
         /\ Goto("recv", "loop")
         /\ UNCHANGED << is_connected_, cur >>
    [] op = 8 ->
         /\ is_connected_' = FALSE
         /\ Emit("Disconnected", "")
         /\ Goto("recv", "done")
         /\ cur' = cur
    [] op = 9 ->
         /\ cur' = [op |-> op, payload |-> payload]
         /\ Goto("recv", "pong_lock")
         /\ UNCHANGED << is_connected_, events >>
    [] OTHER ->
         /\ Goto("recv", "loop")
         /\ UNCHANGED << is_connected_, events, cur >>

\* variant: a close frame is reported and the loop goes on reading
Recv_Dispatch_CloseKeepsReading(op, payload) ==
  CASE op \in {1, 2} ->
         /\ Emit("Message", payload)
         /\ Goto("recv", "loop")
         /\ UNCHANGED << is_connected_, cur >>
    [] op = 8 ->
         /\ Emit("Disconnected", "")
         /\ Goto("recv", "loop")
         /\ UNCHANGED << is_connected_, cur >>
    [] op = 9 ->
         /\ cur' = [op |-> op, payload |-> payload]
         /\ Goto("recv", "pong_lock")
         /\ UNCHANGED << is_connected_, events >>
    [] OTHER ->
         /\ Goto("recv", "loop")
         /\ UNCHANGED << is_connected_, events, cur >>

\* switch (opcode) of ReceiveLoop
Recv_Dispatch(op, payload) ==
  CASE op \in {1, 2} ->
         /\ Emit("Message", payload)
         /\ Goto("recv", "loop")
         /\ UNCHANGED << is_connected_, cur >>
    [] op = 8 ->
         /\ is_connected_' = FALSE
         /\ Emit("Disconnected", "")
         /\ Goto("recv", "done")
         /\ cur' = cur
    [] op = 9 ->
         /\ cur' = [op |-> op, payload |-> payload]
         /\ Goto("recv", "pong_lock")
         /\ UNCHANGED << is_connected_, events >>
    [] OTHER ->
         /\ Goto("recv", "loop")
         /\ UNCHANGED << is_connected_, events, cur >>

\* ReadFrame returned the frame (op, payload) and the loop dispatched it
Recv_FrameRead(op, payload) ==
  /\ pc["recv"] = "read"
  /\ TransportLive
  /\ framesRead < MaxFrames
  /\ framesRead' = framesRead + 1
  /\ Recv_Dispatch(op, payload)
  /\ Touch
  /\ UNCHANGED << build, parsed, socket_fd_, ssl_ctx_, ssl_, should_stop_,
                  receive_thread_, send_mutex_, registry, closeRet, ws_key,
                  tlsPeer, wire, calls, sendRet, stages, pinChecks,
                  threadsStarted >>

\* ReadFrame returned a frame: the switch on its opcode
Recv_Frame ==
  /\ \E op \in Opcodes, payload \in Payloads : Recv_FrameRead(op, payload)
  /\ UNCHANGED helper

\* the same step, with what ReadFrame returned kept for reference
Recv_Frame_Traced ==
  /\ \E op \in Opcodes, payload \in Payloads :
       /\ Recv_FrameRead(op, payload)
       /\ fn_ret' = [fn |-> "ReadFrame", opcode |-> op, payload |-> payload,
                     frame_no |-> framesRead + 1]
  /\ fn_call' = fn_call

\* ReadFrame returned a text or binary frame and the callback given to the
\* connection calls Close() on it before returning
Recv_Message_CloseInCallback ==
  /\ pc["recv"] = "read"
  /\ TransportLive
  /\ framesRead < MaxFrames
  /\ framesRead' = framesRead + 1
  /\ \E payload \in Payloads : Emit("Message", payload)
  /\ Goto("recv", "close_begin")
  /\ closeRet' = [closeRet EXCEPT !["recv"] = "loop"]
  /\ Touch
  /\ UNCHANGED << helper, build, parsed, socket_fd_, ssl_ctx_, ssl_, is_connected_,
                  should_stop_, receive_thread_, send_mutex_, registry, ws_key,
                  cur, tlsPeer, wire, calls, sendRet, stages, pinChecks,
                  threadsStarted >>

\* case 0x09: std::lock_guard on send_mutex_
Recv_PongLock ==
  /\ pc["recv"] = "pong_lock"
  /\ send_mutex_ = "free"
  /\ send_mutex_' = "recv"
  /\ Goto("recv", "pong_frame")
  /\ Touch
  /\ UNCHANGED << helper, build, parsed, socket_fd_, ssl_ctx_, ssl_, is_connected_,
                  should_stop_, receive_thread_, registry, closeRet, ws_key, cur,
                  tlsPeer, events, wire, framesRead, calls, sendRet, stages,
                  pinChecks, threadsStarted >>

\* variant: the pong reply carries no payload
Recv_PongFrame_EmptyPayload ==
  /\ pc["recv"] = "pong_frame"
  /\ \E outcome \in WriteOutcomes : wire' = Written(10, "", outcome)
  /\ send_mutex_' = "free"
  /\ cur' = NoFrame
  /\ Goto("recv", "loop")
  /\ Touch
  /\ UNCHANGED << helper, build, parsed, socket_fd_, ssl_ctx_, ssl_, is_connected_,
                  should_stop_, receive_thread_, registry, closeRet, ws_key,
                  tlsPeer, events, framesRead, calls, sendRet, stages, pinChecks,
                  threadsStarted >>

\* SendFrame(0x0A, payload) with its result ignored
Recv_PongFrame ==
  /\ pc["recv"] = "pong_frame"
  /\ \E outcome \in WriteOutcomes : wire' = Written(10, cur.payload, outcome)
  /\ send_mutex_' = "free"
  /\ cur' = NoFrame
  /\ Goto("recv", "loop")
  /\ Touch
  /\ UNCHANGED << helper, build, parsed, socket_fd_, ssl_ctx_, ssl_, is_connected_,
                  should_stop_, receive_thread_, registry, closeRet, ws_key,
                  tlsPeer, events, framesRead, calls, sendRet, stages, pinChecks,
                  threadsStarted >>

(***************************************************************************)
(* The caller thread: the plugin's send and close handlers.                *)
(***************************************************************************)
\* the identifier reaches the caller in an event or in the reply to connect,
\* which follows the first event
IdKnown == events # <<>>

\* the key of the connection holds the object a later CreateConnection put
\* there, which nothing has connected
EntryReplaced == destroyed /\ ConnId \in connections_

\* variant: Send without its test of the connected state
SendAllowed_Always == TRUE

\* the test at the head of WebSocketConnection::Send
SendAllowed == is_connected_

\* handle_send: GetConnection, then WebSocketConnection::Send up to its
\* is_connected_ test
Send_Begin ==
  /\ pc["main"] = "idle"
  /\ calls < MaxCalls
  /\ IdKnown
  /\ mutex_ = "free"
  /\ calls' = calls + 1
  /\ IF ConnId \notin connections_
     THEN sendRet' = "notfound" /\ pc' = pc
     ELSE IF EntryReplaced \/ ~SendAllowed
     THEN sendRet' = "false" /\ pc' = pc
     ELSE sendRet' = "none" /\ Goto("main", "send_lock")
  /\ UNCHANGED << helper, build, parsed, socket_fd_, ssl_ctx_, ssl_, is_connected_,
                  should_stop_, receive_thread_, send_mutex_, registry, closeRet,
                  ws_key, cur, tlsPeer, events, wire, framesRead, stages,
                  pinChecks, threadsStarted, hazard >>

\* std::lock_guard on send_mutex_
Send_Lock ==
  /\ pc["main"] = "send_lock"
  /\ send_mutex_ = "free"
  /\ send_mutex_' = "main"
  /\ Goto("main", "send_frame")
  /\ Touch
  /\ UNCHANGED << helper, build, parsed, socket_fd_, ssl_ctx_, ssl_, is_connected_,
                  should_stop_, receive_thread_, registry, closeRet, ws_key, cur,
                  tlsPeer, events, wire, framesRead, calls, sendRet, stages,
                  pinChecks, threadsStarted >>

\* variant: a Send whose write fails marks the connection as not connected
Send_Frame_DisconnectOnFail ==
  /\ pc["main"] = "send_frame"
  /\ \E m \in Payloads, outcome \in WriteOutcomes :
       /\ wire' = Written(1, m, outcome)
       /\ sendRet' = IF outcome = "full" THEN "true" ELSE "false"
       /\ is_connected_' = (is_connected_ /\ outcome = "full")
  /\ send_mutex_' = "free"
  /\ Goto("main", "idle")
  /\ Touch
  /\ UNCHANGED << helper, build, parsed, socket_fd_, ssl_ctx_, ssl_,
                  should_stop_, receive_thread_, registry, closeRet, ws_key, cur,
                  tlsPeer, events, framesRead, calls, stages, pinChecks,
                  threadsStarted >>

\* SendFrame(0x01, message): true when the whole frame was written
Send_Frame ==
  /\ pc["main"] = "send_frame"
  /\ \E m \in Payloads, outcome \in WriteOutcomes :
       /\ wire' = Written(1, m, outcome)
       /\ sendRet' = IF outcome = "full" THEN "true" ELSE "false"
  /\ send_mutex_' = "free"
  /\ Goto("main", "idle")
  /\ Touch
  /\ UNCHANGED << helper, build, parsed, socket_fd_, ssl_ctx_, ssl_, is_connected_,
                  should_stop_, receive_thread_, registry, closeRet, ws_key, cur,
                  tlsPeer, events, framesRead, calls, stages, pinChecks,
                  threadsStarted >>

\* ConnectionManager::RemoveConnection: the lock, the lookup, Close(); on an
\* entry that holds a never connected object, Close and the erase change
\* nothing but the map
Remove_Begin ==
  /\ pc["main"] = "idle"
  /\ calls < MaxCalls
  /\ IdKnown
  /\ mutex_ = "free"
  /\ calls' = calls + 1
  /\ IF ConnId \in connections_ /\ ~EntryReplaced
     THEN /\ mutex_' = "main"
          /\ Goto("main", "close_begin")
          /\ closeRet' = [closeRet EXCEPT !["main"] = "erase"]
          /\ connections_' = connections_
     ELSE /\ connections_' = connections_ \ {ConnId}
          /\ UNCHANGED << mutex_, pc, closeRet >>
  /\ UNCHANGED << helper, build, parsed, socket_fd_, ssl_ctx_, ssl_, is_connected_,
                  should_stop_, receive_thread_, send_mutex_, destroyed, issued,
                  new_id, ws_key, cur, tlsPeer, events, wire, framesRead,
                  sendRet, stages, pinChecks, threadsStarted, hazard >>

\* connections_.erase(it): the destructor of the connection calls Close()
Remove_Erase ==
  /\ pc["main"] = "erase"
  /\ connections_' = connections_ \ {ConnId}
  /\ Goto("main", "close_begin")
  /\ closeRet' = [closeRet EXCEPT !["main"] = "destroy"]
  /\ UNCHANGED << helper, build, parsed, socket_fd_, ssl_ctx_, ssl_, is_connected_,
                  should_stop_, receive_thread_, send_mutex_, mutex_, destroyed,
                  issued, new_id, ws_key, cur, tlsPeer, events, wire, framesRead, calls, sendRet,
                  stages, pinChecks, threadsStarted, hazard >>

\* the members are destroyed (a joinable std::thread ends the process), the
\* registry lock is released and RemoveConnection returns
Remove_Destroy ==
  /\ pc["main"] = "destroy"
  /\ destroyed' = TRUE
  /\ mutex_' = "free"
  /\ IF receive_thread_ = "joinable"
     THEN pc' = [t \in Threads |-> "aborted"]
     ELSE Goto("main", "idle")
  /\ UNCHANGED << helper, build, parsed, socket_fd_, ssl_ctx_, ssl_, is_connected_,
                  should_stop_, receive_thread_, send_mutex_, connections_,
                  issued, new_id, closeRet, ws_key, cur, tlsPeer, events, wire,
                  framesRead, calls, sendRet, stages, pinChecks, threadsStarted,
                  hazard >>

(***************************************************************************)
(* ConnectionManager::CreateConnection, on another client thread.          *)
(***************************************************************************)
\* what the random source hands to GenerateUUID: 16 bytes of getrandom or
\* /dev/urandom on Linux, one std::random_device value that seeds a
\* std::mt19937 on Windows; no draw depends on the draws made before
RandomDraws == {1, 2}

\* the identifier is formatted from the drawn value and from nothing else
GenerateUUID(draw) == IF draw = 1 THEN ConnId ELSE "id2"

\* std::string connection_id = GenerateUUID(), before the lock
Create_Begin ==
  /\ pc["aux"] = "idle"
  /\ Len(issued) < 1 + MaxCreates
  /\ \E draw \in RandomDraws : new_id' = GenerateUUID(draw)
  /\ Goto("aux", "create_lock")
  /\ UNCHANGED << helper, build, parsed, socket_fd_, ssl_ctx_, ssl_, is_connected_,
                  should_stop_, receive_thread_, send_mutex_, connections_,
                  mutex_, destroyed, issued, closeRet, ws_key, cur, tlsPeer,
                  events, wire, framesRead, calls, sendRet, stages, pinChecks,
                  threadsStarted, hazard >>

\* the lock, then connections_[connection_id] = std::make_unique<...>(...):
\* the assignment to a key that holds a connection destroys that connection,
\* whose destructor calls Close(); a new or never connected entry is just set
Create_Insert ==
  /\ pc["aux"] = "create_lock"
  /\ mutex_ = "free"
  /\ IF new_id = ConnId /\ ConnId \in connections_ /\ ~destroyed
     THEN /\ mutex_' = "aux"
          /\ Goto("aux", "close_begin")
          /\ closeRet' = [closeRet EXCEPT !["aux"] = "create_destroy"]
          /\ UNCHANGED << connections_, issued, new_id >>
     ELSE /\ connections_' = connections_ \cup {new_id}
          /\ issued' = Append(issued, new_id)
          /\ new_id' = ""
          /\ Goto("aux", "idle")
          /\ UNCHANGED << mutex_, closeRet >>
  /\ UNCHANGED << helper, build, parsed, socket_fd_, ssl_ctx_, ssl_, is_connected_,
                  should_stop_, receive_thread_, send_mutex_, destroyed, ws_key,
                  cur, tlsPeer, events, wire, framesRead, calls, sendRet, stages,
                  pinChecks, threadsStarted, hazard >>

\* the replaced connection's members are destroyed, the key holds the new
\* object, the lock is released and CreateConnection returns the identifier
Create_Destroy ==
  /\ pc["aux"] = "create_destroy"
  /\ destroyed' = TRUE
  /\ mutex_' = "free"
  /\ issued' = Append(issued, new_id)
  /\ new_id' = ""
  /\ IF receive_thread_ = "joinable"
     THEN pc' = [t \in Threads |-> "aborted"]
     ELSE Goto("aux", "idle")
  /\ UNCHANGED << helper, build, parsed, socket_fd_, ssl_ctx_, ssl_, is_connected_,
                  should_stop_, receive_thread_, send_mutex_, connections_,
                  closeRet, ws_key, cur, tlsPeer, events, wire, framesRead, calls,
                  sendRet, stages, pinChecks, threadsStarted, hazard >>

\* a use of the freed object may end the process at any later moment
Crash ==
  /\ hazard
  /\ \E t \in Threads : pc[t] \notin {"aborted", "crashed"}
  /\ pc' = [t \in Threads |-> "crashed"]
  /\ UNCHANGED << helper, build, parsed, socket_fd_, ssl_ctx_, ssl_, is_connected_,
                  should_stop_, receive_thread_, send_mutex_, registry, closeRet,
                  ws_key, cur, tlsPeer, events, wire, framesRead, calls, sendRet,
                  stages, pinChecks, threadsStarted, hazard >>

\* receive_thread_ = std::thread(&WebSocketConnection::ReceiveLoop, this), first
\* half: should_stop_ = false and the construction of the thread, which runs
\* from then on while receive_thread_ is not yet assigned
Connect_SpawnThread ==
  /\ pc["conn"] = "start_thread"
  /\ should_stop_' = FALSE
  /\ threadsStarted' = threadsStarted + 1
  /\ pc' = [pc EXCEPT !["conn"] = "assign_thread", !["recv"] = "loop"]
  /\ Touch
  /\ UNCHANGED << helper, build, parsed, socket_fd_, ssl_ctx_, ssl_, is_connected_,
                  receive_thread_, send_mutex_, registry, closeRet, ws_key, cur,
                  tlsPeer, events, wire, framesRead, calls, sendRet, stages,
                  pinChecks >>

\* second half: the move assignment to receive_thread_, which a concurrent
\* joinable() sees done or not done; Connect returns true
Connect_AssignThread ==
  /\ pc["conn"] = "assign_thread"
  /\ receive_thread_' = "joinable"
  /\ Goto("conn", "ret_true")
  /\ Touch
  /\ UNCHANGED << helper, build, parsed, socket_fd_, ssl_ctx_, ssl_, is_connected_,
                  should_stop_, send_mutex_, registry, closeRet, ws_key, cur,
                  tlsPeer, events, wire, framesRead, calls, sendRet, stages,
                  pinChecks, threadsStarted >>

\* every step but the start of the receive thread and the reads
NextButStart ==
  \/ Connect_ParseUrl
  \/ Connect_Resolve
  \/ Connect_Tcp
  \/ Connect_TlsSetup
  \/ Connect_TlsConnect
  \/ Connect_WsSend
  \/ Connect_Established
  \/ \E t \in {"conn", "main"} :
       \/ Close_Begin(t)
       \/ Close_Joinable(t)
       \/ Close_Lock(t)
       \/ Close_Frame(t)
       \/ Close_Join(t)
       \/ Close_Teardown(t)
  \/ Recv_Loop
  \/ Recv_ReadFailed
  \/ Recv_PongLock
  \/ Recv_PongFrame
  \/ Send_Begin
  \/ Send_Lock
  \/ Send_Frame
  \/ Remove_Begin
  \/ Remove_Erase
  \/ Remove_Destroy
  \/ Crash

\* every step but the reads of the handshake response and of a frame
NextButReads ==
  \/ NextButStart
  \/ Connect_StartThread

NextButFrame ==
  \/ NextButReads
  \/ Connect_WsRecv

Next ==
  \/ NextButFrame
  \/ Recv_Frame

Spec == Init /\ [][Next]_vars

\* ReadFrame returned the frame (op, payload): the receive thread holds it in
\* its locals and has not yet reached the switch
Recv_ReadReturned ==
  /\ pc["recv"] = "read"
  /\ TransportLive
  /\ framesRead < MaxFrames
  /\ framesRead' = framesRead + 1
  /\ \E op \in Opcodes, payload \in Payloads : cur' = [op |-> op, payload |-> payload]
  /\ Goto("recv", "switch")
  /\ Touch
  /\ UNCHANGED << helper, build, parsed, socket_fd_, ssl_ctx_, ssl_, is_connected_,
                  should_stop_, receive_thread_, send_mutex_, registry, closeRet,
                  ws_key, tlsPeer, events, wire, calls, sendRet, stages, pinChecks,
                  threadsStarted >>

\* the switch on the opcode of the frame that ReadFrame returned
Recv_Switch ==
  /\ pc["recv"] = "switch"
  /\ Recv_Dispatch(cur.op, cur.payload)
  /\ Touch
  /\ UNCHANGED << helper, build, parsed, socket_fd_, ssl_ctx_, ssl_, should_stop_,
                  receive_thread_, send_mutex_, registry, closeRet, ws_key,
                  tlsPeer, wire, framesRead, calls, sendRet, stages, pinChecks,
                  threadsStarted >>

\* the thread function of handle_connect after Connect has returned: the reply
\* to the connect call, posted to the main thread; nothing else is done
Connect_Reply ==
  /\ pc["conn"] \in {"ret_true", "ret_false"}
  /\ fn_ret = NoCall
  /\ fn_ret' = IF pc["conn"] = "ret_true"
               THEN [fn |-> "connect", reply |-> "success", connectionId |-> ConnId]
               ELSE [fn |-> "connect", reply |-> "CONNECTION_FAILED", connectionId |-> ""]
  /\ UNCHANGED << fn_call, build, parsed, tlsPeer, registry, socket_fd_, ssl_ctx_, ssl_,
                  is_connected_, should_stop_, receive_thread_, send_mutex_, pc, closeRet,
                  ws_key, cur, events, wire, framesRead, calls, sendRet, stages,
                  pinChecks, threadsStarted, hazard >>

\* the connection with the reply to the connect call
ReplyNext ==
  \/ Next
  \/ Connect_Reply

ReplySpec == Init /\ [][ReplyNext]_vars

\* the connection in finer steps: the start of the receive thread in its two
\* halves, and the read of a frame apart from its dispatch
StartNext ==
  \/ NextButStart
  \/ Connect_SpawnThread
  \/ Connect_AssignThread
  \/ Connect_WsRecv
  \/ Recv_ReadReturned
  \/ Recv_Switch

StartSpec == Init /\ [][StartNext]_vars

\* the connection used through its class interface by a client whose event
\* callback closes the connection from inside the callback
CallbackNext ==
  \/ Next
  \/ Recv_Message_CloseInCallback
  \/ Close_Begin("recv")
  \/ Close_Joinable("recv")
  \/ Close_Lock("recv")
  \/ Close_Frame("recv")
  \/ Close_Teardown("recv")

CallbackSpec == Init /\ [][CallbackNext]_vars

\* the manager used by two client threads: the handlers' thread, and a thread
\* that creates further connections
ManagerNext ==
  \/ Next
  \/ Create_Begin
  \/ Create_Insert
  \/ Create_Destroy
  \/ Close_Begin("aux")
  \/ Close_Joinable("aux")
  \/ Close_Lock("aux")
  \/ Close_Frame("aux")
  \/ Close_Join("aux")
  \/ Close_Teardown("aux")

ManagerSpec == Init /\ [][ManagerNext]_vars

\* the steps of the receive thread: a pending read always ends (a frame, the
\* peer's close, or the failure the SO_RCVTIMEO of Connect turns silence into)
ReceiveThreadStep ==
  \/ Recv_Loop
  \/ Recv_ReadFailed
  \/ Recv_Frame
  \/ Recv_PongLock
  \/ Recv_PongFrame

\* the steps inside a RemoveConnection call that is already running
RemoveCallStep ==
  \/ Close_Begin("main")
  \/ Close_Joinable("main")
  \/ Close_Lock("main")
  \/ Close_Frame("main")
  \/ Close_Join("main")
  \/ Close_Teardown("main")
  \/ Remove_Erase
  \/ Remove_Destroy

\* every runnable thread is scheduled: the running call and the receive thread
\* keep taking their steps; nothing obliges the caller to start a new call
FairSpec == Spec /\ WF_vars(ReceiveThreadStep) /\ WF_vars(RemoveCallStep)


(***************************************************************************)
(* Properties.                                                             *)
(***************************************************************************)
HasEvent(type) == \E i \in 1..Len(events) : events[i].type = type

CountEvents(types) == Cardinality({i \in 1..Len(events) : events[i].type \in types})

Terminal == {"Disconnected", "Error", "PinningFailed"}

\* some certificate of the chain the TLS library returned has a fingerprint
\* equal to a configured pin
SomeCertPinned ==
  \E i \in 1..Len(peer_chain), j \in 1..Len(pins_) :
    CalculateSpkiPin(peer_chain[i]) = pins_[j]

\* C1: on a wss connection with a non-empty pin set, Connected is emitted only
\* if a certificate of the peer chain has a fingerprint equal to a pin; when the
\* chain was examined and none matches, Connect has emitted PinningFailed, has
\* returned failure and Connected is not emitted.
C1_ConnectedOnlyWhenPinned ==
  (use_tls_ /\ pins_ # <<>>) =>
    /\ HasEvent("Connected") => SomeCertPinned
    /\ (peer_chain # <<>> /\ ~SomeCertPinned) =>
         /\ HasEvent("PinningFailed")
         /\ ~HasEvent("Connected")
         /\ pc["conn"] = "ret_false"
         /\ threadsStarted = 0

\* a pinned wss connection is connected through a certificate of the chain
\* that is not the leaf
C1_Witness ==
  /\ use_tls_ /\ pins_ # <<>>
  /\ HasEvent("Connected")
  /\ peer_chain # <<>>
  /\ ~VerifyCertificatePins(peer_chain[1], pins_)

\* C2: on a wss connection, with or without pins, Connected is emitted only if
\* the verification of the peer's certificate chain succeeded; when it fails,
\* Connect emits Error, returns failure and never emits Connected.
C2_ConnectedOnlyWhenVerified ==
  use_tls_ =>
    /\ HasEvent("Connected") => peer_verify = "ok"
    /\ peer_verify = "chain" =>
         /\ HasEvent("Error")
         /\ ~HasEvent("Connected")
         /\ pc["conn"] = "ret_false"

\* C3: every Message event follows a Connected event, and at most one Connected
\* event is emitted.
C3_ConnectedBeforeMessage ==
  /\ \A i \in 1..Len(events) :
       events[i].type = "Message" =>
         \E j \in 1..(i - 1) : events[j].type = "Connected"
  /\ CountEvents({"Connected"}) <= 1

\* a Message was delivered while the caller was closing the connection
C3_Witness ==
  /\ HasEvent("Message")
  /\ mutex_ = "main"


\* Connect has returned, the receive loop of a connected connection has ended
\* and the caller is in no call
Quiescent ==
  /\ pc["conn"] \in {"ret_false", "ret_true"}
  /\ pc["conn"] = "ret_true" => pc["recv"] = "done"
  /\ pc["main"] = "idle"

\* RemoveConnection has been called for the connection
RemoveRequested == mutex_ = "main" \/ ConnId \notin connections_

C5_FailureEmitsOneEvent ==
  (pc["conn"] \in {"ret_false", "aborted"} /\ ~HasEvent("Connected")) =>
    /\ pc["conn"] = "ret_false"
    /\ Len(events) = 1
    /\ events[1].type \in {"Error", "PinningFailed"}
    /\ threadsStarted = 0

StageRan(st) == \E i \in 1..Len(stages) : stages[i] = st

IsPrefix(s, t) == Len(s) <= Len(t) /\ SubSeq(t, 1, Len(s)) = s

\* the stages of a Connect that succeeds, for the parsed URL and the pins
ExpectedOrder ==
  <<"parse", "dns", "tcp">>
    \o (IF use_tls_ THEN <<"tls">> ELSE <<>>)
    \o (IF use_tls_ /\ pins_ # <<>> THEN <<"pin">> ELSE <<>>)
    \o <<"ws">>

ConnectFailed == HasEvent("Error") \/ HasEvent("PinningFailed")

\* C6: the stages Connect has run are always an initial part of the order URL
\* parse, DNS, TCP connect, TLS handshake (wss only), pin check (wss with
\* pins only), WebSocket handshake; once a stage has failed no further stage
\* runs; the connected state is set, Connected is emitted and the receive
\* thread is started only after all stages have run without a failure, and
\* at most one receive thread is started.
C6_StagesInOrder ==
  /\ [](/\ IsPrefix(stages, ExpectedOrder)
        /\ HasEvent("Connected") => (stages = ExpectedOrder /\ ~ConnectFailed)
        /\ is_connected_ => HasEvent("Connected")
        /\ threadsStarted <= 1
        /\ threadsStarted = 1 => HasEvent("Connected"))
  /\ [][ConnectFailed => stages' = stages]_vars

\* a pinned wss connection went through all six stages and started its thread
C6_Witness ==
  /\ use_tls_ /\ pins_ # <<>>
  /\ stages = <<"parse", "dns", "tcp", "tls", "pin", "ws">>
  /\ HasEvent("Connected")
  /\ threadsStarted = 1

\* C7: a failure of the certificate verification is reported as Error and
\* never as PinningFailed, a pin mismatch on a verified chain is reported as
\* PinningFailed and never as Error, and one attempt emits at most one of the
\* two event types.
C7_FailureCategories ==
  /\ peer_verify = "chain" =>
       HasEvent("Error") /\ ~HasEvent("PinningFailed")
  /\ (peer_verify = "ok" /\ peer_chain # <<>> /\ ~SomeCertPinned) =>
       HasEvent("PinningFailed") /\ ~HasEvent("Error")
  /\ CountEvents({"Error", "PinningFailed"}) <= 1

\* C8: with an empty pin set no fingerprint is computed, the peer chain is
\* not examined and PinningFailed is never emitted.
C8_NoPinsNoPinCheck ==
  pins_ = <<>> =>
    /\ pinChecks = 0
    /\ peer_chain = <<>>
    /\ ~HasEvent("PinningFailed")
    /\ ~StageRan("pin")

\* a wss connection without pins completed the TLS handshake and is connected
C8_Witness ==
  /\ pins_ = <<>> /\ use_tls_ /\ have_openssl
  /\ peer_verify = "ok"
  /\ HasEvent("Connected")

\* C9: in a build without TLS support, once Connect to a wss URL has reached
\* the TLS stage it has failed with a single event, PinningFailed when pins
\* are configured and Error when not; Connected is not emitted and nothing
\* has been written to the transport.
C9_NoTlsSupport ==
  (~have_openssl /\ use_tls_ /\ StageRan("tls")) =>
    /\ Len(events) = 1
    /\ events[1].type = (IF pins_ # <<>> THEN "PinningFailed" ELSE "Error")
    /\ pc["conn"] = "ret_false"
    /\ ~is_connected_
    /\ threadsStarted = 0
    /\ wire = <<>>

\* a build without TLS support refused a pinned wss connection, which the
\* caller then removed
C9_Witness ==
  /\ ~have_openssl /\ use_tls_ /\ pins_ # <<>>
  /\ HasEvent("PinningFailed")
  /\ destroyed

\* the connection is not connected before Connect has established it, after
\* a failed Connect, after Disconnected and once Close has begun
NotConnectedSituations ==
  \/ pc["conn"] \in {"idle", "dns", "tcp", "tls_setup", "tls_connect", "ws_send",
                     "ws_recv", "connected", "ret_false"}
  \/ HasEvent("Disconnected")
  \/ pc["main"] \in {"close_joinable", "close_lock", "close_frame", "close_join",
                     "close_teardown", "erase", "destroy"}
  \/ ConnId \notin connections_

\* C10: in each of these situations the connection is not in the connected
\* state; a Send goes on to write a frame only if the connection is in the
\* connected state, and otherwise returns failure at once without writing;
\* Send returns success only by writing one whole text frame.
C10_SendOnlyWhenConnected ==
  /\ [](NotConnectedSituations => ~is_connected_)
  /\ [][/\ (pc["main"] = "idle" /\ pc'["main"] = "send_lock") => is_connected_
        /\ (pc["main"] = "idle" /\ calls' # calls /\ ~is_connected_) =>
             /\ pc'["main"] \in {"idle", "close_begin"}
             /\ wire' = wire
             /\ sendRet' \in {sendRet, "false", "notfound"}
        /\ (sendRet' = "true" /\ sendRet # "true") =>
             /\ pc["main"] = "send_frame"
             /\ \E m \in Payloads :
                  wire' = Append(wire, [op |-> 1, payload |-> m, full |-> TRUE])
       ]_vars

\* Send was refused after the receive loop had emitted Disconnected
C10_Witness ==
  /\ sendRet = "false"
  /\ HasEvent("Disconnected")
  /\ pc["main"] = "idle"
  /\ wire = <<[op |-> "GET", payload |-> "", full |-> TRUE]>>

\* thread t is inside SendFrame: between taking send_mutex_ and releasing it
WritingFrame(t) == pc[t] \in {"send_frame", "pong_frame", "close_frame"}

\* C11: at most one thread at a time is writing a frame (the application
\* Send, the pong reply of the receive loop, the close frame of Close), and
\* the thread that writes holds the send lock.
C11_OneWriterAtATime ==
  /\ \A t1, t2 \in Threads : (WritingFrame(t1) /\ WritingFrame(t2)) => t1 = t2
  /\ \A t \in Threads : WritingFrame(t) => send_mutex_ = t

\* Close is writing its close frame while the receive loop waits for the
\* lock to send a pong
C11_Witness ==
  /\ pc["main"] = "close_frame"
  /\ pc["recv"] = "pong_lock"

\* the receive thread does not exist or has left ReceiveLoop
ReceiveThreadStopped == pc["recv"] \in {"none", "done"}

\* C12: the entry is erased and the Connection destroyed only when its
\* receive thread has stopped: an erased or destroyed connection has no
\* receive thread that is running or still joinable; and once
\* RemoveConnection has returned the identifier is no longer in the map.
C12_RemoveWaitsForThread ==
  /\ ConnId \notin connections_ => ReceiveThreadStopped
  /\ destroyed => (ReceiveThreadStopped /\ receive_thread_ # "joinable")
  /\ (destroyed /\ pc["main"] = "idle") => ConnId \notin connections_

CloseLabels ==
  {"close_begin", "close_joinable", "close_lock", "close_frame", "close_join",
   "close_teardown"}

\* Connect has been entered and has not returned
ConnectInProgress ==
  pc["conn"] \in {"dns", "tcp", "tls_setup", "tls_connect", "ws_send", "ws_recv",
                  "connected", "start_thread"} \cup CloseLabels

\* C13: while Connect is in progress the caller's Close/RemoveConnection
\* neither tears down the transport nor destroys the object: Connect, about
\* to start the receive thread, still has its open socket, the object is
\* not destroyed before Connect has returned, and no thread ever uses the
\* object after its destruction.
C13_NoTeardownDuringConnect ==
  /\ pc["conn"] = "start_thread" => socket_fd_ = "open"
  /\ ConnectInProgress => ~destroyed
  /\ ~hazard

\* what Close works on
ConnState ==
  << is_connected_, should_stop_, receive_thread_, send_mutex_, ssl_, ssl_ctx_,
     socket_fd_ >>

\* the connection owns nothing: no joinable thread, no TLS session, no socket
NothingOwned ==
  /\ receive_thread_ # "joinable"
  /\ ssl_ = "null" /\ ssl_ctx_ = "null"
  /\ socket_fd_ = "invalid"

\* the state a Close that ran to its end leaves
ClosedState == should_stop_ /\ ~is_connected_ /\ NothingOwned

\* thread t takes a step of Close
CloseStep(t) ==
  /\ pc[t] \in CloseLabels
  /\ pc'[t] # pc[t]
  /\ pc'[t] \notin {"aborted", "crashed"}

ConnectReturned == pc["conn"] \in {"ret_true", "ret_false"}

\* the caller is inside a RemoveConnection call: in its Close(), at the erase,
\* or in the destructor's Close()
InRemoveCall == pc["main"] \in CloseLabels \cup {"erase", "destroy"}

C16_SelfCloseDetaches ==
  [][/\ \A t \in Threads :
          (CloseStep(t) /\ pc[t] = "close_frame") =>
             IF t = "recv"
             THEN receive_thread_' = "detached" /\ pc'[t] = "close_teardown"
             ELSE receive_thread_' = receive_thread_ /\ pc'[t] = "close_join"
     /\ \A t \in Threads :
          (CloseStep(t) /\ pc[t] = "close_join") =>
             /\ t # "recv"
             /\ pc["recv"] = "done"
             /\ receive_thread_' = "joined"
     /\ (CloseStep("recv") /\ pc["recv"] = "close_teardown") =>
             pc'["recv"] = "loop"
     /\ (pc["recv"] = "loop" /\ receive_thread_ = "detached"
           /\ pc'["recv"] \notin {"loop", "aborted", "crashed"}) =>
             pc'["recv"] = "done"
    ]_vars

\* the callback closed the connection on the receive thread, which detached
\* itself, returned from Close and left its loop
C16_Witness ==
  /\ receive_thread_ = "detached"
  /\ pc["recv"] = "done"
  /\ HasEvent("Message")
  /\ socket_fd_ = "invalid"
  /\ ~hazard


(***************************************************************************)
(* C17                                                                     *)
(***************************************************************************)
\* a RemoveConnection holds the registry lock while its Close writes the close
\* frame or waits in join() for the receive thread
RemoveInNetworkIo ==
  mutex_ = "main" /\ pc["main"] \in {"close_frame", "close_join"}

\* C17: a CreateConnection never waits on network I/O done by another
\* operation: no Create of a new identifier stands before the registry lock
\* while a Remove of another connection holds that lock in its close-frame write or in its wait
\* for the receive thread.
C17_CreateNeverWaitsOnIo ==
  (pc["aux"] = "create_lock" /\ new_id # ConnId) => ~RemoveInNetworkIo

(***************************************************************************)
(* C18                                                                     *)
(***************************************************************************)
\* C18: every identifier CreateConnection returns differs from every one it
\* returned before, those of removed connections included, and no Create
\* destroys the connection an existing key holds.
C18_IdsNeverReused ==
  /\ \A i, j \in 1..Len(issued) : i < j => issued[i] # issued[j]
  /\ pc["aux"] \notin CloseLabels \cup {"create_destroy"}


(***************************************************************************)
(* C19                                                                     *)
(***************************************************************************)
\* the receive loop leaves on a ReadFrame that returned false: no frame was
\* consumed by the step
ReadFailureStep ==
  pc["recv"] = "read" /\ pc'["recv"] = "done" /\ framesRead' = framesRead

\* C19: when a read of ReadFrame comes short (header, extended length, mask
\* or payload) and no Close was requested, the loop ends and the step reports
\* one Disconnected event, the first and only one of the connection, and
\* clears the connected state; once the loop has ended no further event
\* follows, so the failure is never reported as an Error.
C19_ReadFailureIsDisconnected ==
  [][/\ (ReadFailureStep /\ ~should_stop_) =>
          /\ events' = Append(events, Event("Disconnected", ""))
          /\ ~HasEvent("Disconnected")
          /\ ~is_connected_'
     /\ pc["recv"] = "done" => events' = events
    ]_vars

\* the first read of the loop failed on a connected connection nobody closed
C19_Witness ==
  /\ pc["recv"] = "done" /\ framesRead = 0 /\ ~should_stop_
  /\ HasEvent("Connected")
  /\ events[Len(events)] = Event("Disconnected", "")
  /\ \E d \in InboundData : ReadFrameFailsAt(d) = "payload"
  /\ \E d \in InboundData : ReadFrameFailsAt(d) = "mask"
  /\ \E d \in InboundData : ReadFrameFailsAt(d) = "extlen"


(***************************************************************************)
(* C20                                                                     *)
(***************************************************************************)
\* a Send returns false: at its test of the connected state, or after a
\* write that failed or came short
SendFailedStep ==
  /\ sendRet' = "false"
  /\ \/ pc["main"] = "idle" /\ pc'["main"] = "idle" /\ calls' = calls + 1
     \/ pc["main"] = "send_frame" /\ pc'["main"] = "idle"

\* C20: a Send that fails (not connected, or its write failed) only returns
\* false: the step emits no event, leaves the connected state, the stop flag,
\* the transport and the receive thread as they were, so a receive loop that
\* could deliver the next inbound frame before the step still can after it.
C20_FailedSendOnlyReturnsFalse ==
  [][SendFailedStep =>
       /\ events' = events
       /\ is_connected_' = is_connected_
       /\ should_stop_' = should_stop_
       /\ pc'["recv"] = pc["recv"]
       /\ << receive_thread_, socket_fd_, ssl_, ssl_ctx_, framesRead >>'
            = << receive_thread_, socket_fd_, ssl_, ssl_ctx_, framesRead >>
    ]_vars

\* a Send's write came short on a connected connection (the frames follow the
\* handshake request on the wire), and the receive loop is still waiting for
\* the next frame of a live transport
C20_Witness ==
  /\ sendRet = "false" /\ pc["main"] = "idle"
  /\ \E i \in 2..Len(wire) : wire[i].op = 1 /\ ~wire[i].full
  /\ is_connected_ /\ ~should_stop_
  /\ pc["recv"] = "read" /\ TransportLive /\ framesRead < MaxFrames


(***************************************************************************)
(* C21                                                                     *)
(***************************************************************************)
\* the receive loop read a ping frame; it takes the send lock; it writes the
\* pong and returns to the head of the loop
PingStep == pc["recv"] = "read" /\ pc'["recv"] = "pong_lock"

PongLockStep == pc["recv"] = "pong_lock" /\ pc'["recv"] = "pong_frame"

PongStep == pc["recv"] = "pong_frame" /\ pc'["recv"] = "loop"

\* what one SendFrame(0x0A, P) can leave on the wire: the pong frame with
\* payload P, whole or cut short, or nothing when the write fails
PongOnWire(P) ==
  {wire} \cup {Append(wire, [op |-> 10, payload |-> P, full |-> f]) : f \in BOOLEAN}

Bytes == 0..255

\* a & b, a | b and a ^ b on n-bit operands
RECURSIVE BitAnd(_, _, _)
BitAnd(a, b, n) ==
  IF n = 0 THEN 0
  ELSE 2 * BitAnd(a \div 2, b \div 2, n - 1) + (IF a % 2 = 1 /\ b % 2 = 1 THEN 1 ELSE 0)

RECURSIVE BitOr(_, _, _)
BitOr(a, b, n) ==
  IF n = 0 THEN 0
  ELSE 2 * BitOr(a \div 2, b \div 2, n - 1) + (IF a % 2 = 1 \/ b % 2 = 1 THEN 1 ELSE 0)

RECURSIVE BitXor(_, _, _)
BitXor(a, b, n) ==
  IF n = 0 THEN 0
  ELSE 2 * BitXor(a \div 2, b \div 2, n - 1) + (IF a % 2 # b % 2 THEN 1 ELSE 0)

\* the ^ of two uint8_t values
Xor8 == [a \in Bytes |-> [b \in Bytes |-> BitXor(a, b, 8)]]

\* (value >> bits) & 0xFF for a length below 2^31
ShiftedByte(value, bits) == IF bits >= 31 THEN 0 ELSE (value \div (2 ^ bits)) % 256

\* variant: the payload is masked with mask[i % 3]
MaskPayload_WrongIndex(payload, mask) ==
  LET data == SubSeq(payload, 1, Len(payload))
  IN [i \in 1..Len(data) |-> Xor8[data[i]][mask[((i - 1) % 3) + 1]]]

\* payload[i] ^ mask[i % 4], i counted from 0
MaskPayload(payload, mask) ==
  LET data == SubSeq(payload, 1, Len(payload))
  IN [i \in 1..Len(data) |-> Xor8[data[i]][mask[((i - 1) % 4) + 1]]]

\* variant: the 16-bit extended length is written low byte first
LengthBytes_LittleEndian(payload_len) ==
  IF payload_len <= 125 THEN << BitOr(128, payload_len, 8) >>
  ELSE IF payload_len <= 65535
  THEN << BitOr(128, 126, 8), ShiftedByte(payload_len, 0), ShiftedByte(payload_len, 8) >>
  ELSE << BitOr(128, 127, 8) >>
       \o [k \in 1..8 |-> ShiftedByte(payload_len, (k - 1) * 8)]

\* the second byte of a frame and the extended length after it
LengthBytes(payload_len) ==
  IF payload_len <= 125 THEN << BitOr(128, payload_len, 8) >>
  ELSE IF payload_len <= 65535
  THEN << BitOr(128, 126, 8), ShiftedByte(payload_len, 8), ShiftedByte(payload_len, 0) >>
  ELSE << BitOr(128, 127, 8) >>
       \o [k \in 1..8 |-> ShiftedByte(payload_len, (8 - k) * 8)]

\* the bytes SendFrame hands to SSL_write/send
SendFrame(opcode, payload, mask) ==
  << BitOr(128, opcode, 8) >> \o LengthBytes(Len(payload)) \o mask
    \o MaskPayload(payload, mask)

\* the value of a big-endian extended length
RECURSIVE BigEndian(_)
BigEndian(bytes) ==
  IF bytes = <<>> THEN 0
  ELSE BigEndian(SubSeq(bytes, 1, Len(bytes) - 1)) * 256 + bytes[Len(bytes)]

\* an extended length that this model can hold: below 2^31
Representable(bytes) ==
  \/ Len(bytes) <= 2
  \/ /\ \A k \in 1..(Len(bytes) - 4) : bytes[k] = 0
     /\ bytes[Len(bytes) - 3] < 128

FrameFailed == [ok |-> FALSE, opcode |-> 0, payload_len |-> 0, payload |-> <<>>]

\* ReadFrame on the bytes the transport delivers: the opcode and the unmasked
\* payload, or false when the bytes end before the frame does
ReadFrame(data) ==
  IF Len(data) < 2 THEN FrameFailed
  ELSE
    LET opcode == BitAnd(data[1], 15, 8)
        masked == BitAnd(data[2], 128, 8) # 0
        len7 == BitAnd(data[2], 127, 8)
        ext == IF len7 = 126 THEN 2 ELSE IF len7 = 127 THEN 8 ELSE 0
    IN IF Len(data) < 2 + ext \/ ~Representable(SubSeq(data, 3, 2 + ext))
       THEN FrameFailed
       ELSE
         LET payload_len == IF ext = 0 THEN len7 ELSE BigEndian(SubSeq(data, 3, 2 + ext))
             mlen == IF masked THEN 4 ELSE 0
             start == 2 + ext + mlen
         IN IF Len(data) < start + payload_len THEN FrameFailed
            ELSE
              LET mask == IF masked THEN SubSeq(data, 3 + ext, start) ELSE << 0, 0, 0, 0 >>
                  raw == SubSeq(data, start + 1, start + payload_len)
              IN [ok |-> TRUE, opcode |-> opcode, payload_len |-> payload_len,
                  payload |-> IF masked THEN MaskPayload(raw, mask) ELSE raw]

(***************************************************************************)
(* The handshake digest: SHA1Hash and Base64Encode without the TLS library *)
(* (the #else branches), on 32-bit words kept as two 16-bit halves.        *)
(***************************************************************************)
\* the characters of codes 32 to 126, in order (codes 34, 92 and 96 by name)
Printable ==
  << " ", "!", "quote", "#", "$", "%", "&", "'", "(", ")", "*", "+", ",", "-", ".", "/",
     "0", "1", "2", "3", "4", "5", "6", "7", "8", "9", ":", ";", "<", "=", ">", "?",
     "@", "A", "B", "C", "D", "E", "F", "G", "H", "I", "J", "K", "L", "M", "N", "O",
     "P", "Q", "R", "S", "T", "U", "V", "W", "X", "Y", "Z", "[", "backslash", "]", "^", "_",
     "backtick", "a", "b", "c", "d", "e", "f", "g", "h", "i", "j", "k", "l", "m", "n", "o",
     "p", "q", "r", "s", "t", "u", "v", "w", "x", "y", "z", "{", "|", "}", "~" >>

\* the unsigned char value of a character
Ord(c) == 31 + (CHOOSE i \in 1..Len(Printable) : Printable[i] = c)

\* reinterpret_cast<const unsigned char*>(text.c_str())
BytesOf(text) == [i \in 1..Len(text) |-> Ord(text[i])]

base64_chars ==
  << "A", "B", "C", "D", "E", "F", "G", "H", "I", "J", "K", "L", "M", "N", "O", "P",
     "Q", "R", "S", "T", "U", "V", "W", "X", "Y", "Z", "a", "b", "c", "d", "e", "f",
     "g", "h", "i", "j", "k", "l", "m", "n", "o", "p", "q", "r", "s", "t", "u", "v",
     "w", "x", "y", "z", "0", "1", "2", "3", "4", "5", "6", "7", "8", "9", "+", "/" >>

\* the four characters for the bytes data[i], data[i+1], data[i+2], i from 1
Base64Group(data, i) ==
  LET len == Len(data)
      n == data[i] * 65536 + (IF i + 1 <= len THEN data[i + 1] * 256 ELSE 0)
             + (IF i + 2 <= len THEN data[i + 2] ELSE 0)
  IN << base64_chars[((n \div 262144) % 64) + 1],
        base64_chars[((n \div 4096) % 64) + 1],
        IF i + 1 <= len THEN base64_chars[((n \div 64) % 64) + 1] ELSE "=",
        IF i + 2 <= len THEN base64_chars[(n % 64) + 1] ELSE "=" >>

RECURSIVE Base64From(_, _)
Base64From(data, i) ==
  IF i > Len(data) THEN << >> ELSE Base64Group(data, i) \o Base64From(data, i + 3)

\* Base64Encode(data, len)
Base64Encode == [data \in Seq(Bytes) |-> Base64From(data, 1)]

\* a uint32_t as << high half, low half >>
Word32 == (0..65535) \X (0..65535)

And32 == [x \in Word32, y \in Word32 |-> << BitAnd(x[1], y[1], 16), BitAnd(x[2], y[2], 16) >>]

Or32 == [x \in Word32, y \in Word32 |-> << BitOr(x[1], y[1], 16), BitOr(x[2], y[2], 16) >>]

Xor32 == [x \in Word32, y \in Word32 |-> << BitXor(x[1], y[1], 16), BitXor(x[2], y[2], 16) >>]

Not32 == [x \in Word32 |-> << 65535 - x[1], 65535 - x[2] >>]

\* x + y modulo 2^32
Add32 ==
  [x \in Word32, y \in Word32 |->
     << (x[1] + y[1] + ((x[2] + y[2]) \div 65536)) % 65536, (x[2] + y[2]) % 65536 >>]

\* (x << n) | (x >> (32 - n))
Rotl32 ==
  [x \in Word32, n \in 0..31 |->
     LET hi == IF n >= 16 THEN x[2] ELSE x[1]
         lo == IF n >= 16 THEN x[1] ELSE x[2]
         m == n % 16
         keep == 2 ^ (16 - m)
     IN << (hi % keep) * (2 ^ m) + (lo \div keep), (lo % keep) * (2 ^ m) + (hi \div keep) >>]

\* the message with the 0x80 byte, the zero padding and the 64-bit length
Sha1Padded(data) ==
  LET len == Len(data)
      new_len == (((len + 8) \div 64) + 1) * 64
      bits_len == len * 8
  IN [p \in 1..new_len |->
        IF p <= len THEN data[p]
        ELSE IF p = len + 1 THEN 128
        ELSE IF p > new_len - 8 THEN ShiftedByte(bits_len, (new_len - p) * 8)
        ELSE 0]

\* w[0..15] of the block that starts at offset
Sha1Block(msg, offset) ==
  [i \in 1..16 |->
     << msg[offset + (i - 1) * 4 + 1] * 256 + msg[offset + (i - 1) * 4 + 2],
        msg[offset + (i - 1) * 4 + 3] * 256 + msg[offset + (i - 1) * 4 + 4] >>]

\* w[16..79], each from the words before it
Sha1Schedule[w \in Seq(Word32)] ==
  IF Len(w) >= 80 THEN w
  ELSE LET i == Len(w) + 1
       IN Sha1Schedule[Append(w, Rotl32[Xor32[Xor32[Xor32[w[i - 3], w[i - 8]], w[i - 14]],
                                              w[i - 16]], 1])]

\* variant: the choice function is used in every round
Sha1F_AlwaysChoice ==
  [i \in 0..79, b \in Word32, c \in Word32, d \in Word32 |->
     Or32[And32[b, c], And32[Not32[b], d]]]

\* f of round i
Sha1F ==
  [i \in 0..79, b \in Word32, c \in Word32, d \in Word32 |->
     IF i < 20 THEN Or32[And32[b, c], And32[Not32[b], d]]
     ELSE IF i < 40 THEN Xor32[Xor32[b, c], d]
     ELSE IF i < 60 THEN Or32[Or32[And32[b, c], And32[b, d]], And32[c, d]]
     ELSE Xor32[Xor32[b, c], d]]

\* k of round i: 0x5A827999, 0x6ED9EBA1, 0x8F1BBCDC, 0xCA62C1D6
Sha1K ==
  [i \in 0..79 |->
     IF i < 20 THEN << 23170, 31129 >>
     ELSE IF i < 40 THEN << 28377, 60321 >>
     ELSE IF i < 60 THEN << 36635, 48348 >>
     ELSE << 51810, 49622 >>]

\* one round on s = << a, b, c, d, e >> with the word wi = w[i]
Sha1Round ==
  [s \in Seq(Word32), wi \in Word32, i \in 0..79 |->
     << Add32[Add32[Add32[Add32[Rotl32[s[1], 5], Sha1F[i, s[2], s[3], s[4]]], s[5]],
                    Sha1K[i]], wi],
        s[1], Rotl32[s[2], 30], s[3], s[4] >>]

\* rounds i..79
Sha1Rounds[s \in Seq(Word32), w \in Seq(Word32), i \in 0..80] ==
  IF i = 80 THEN s ELSE Sha1Rounds[Sha1Round[s, w[i + 1], i], w, i + 1]

\* h0 += a; h1 += b; h2 += c; h3 += d; h4 += e
Sha1Sum ==
  [h \in Seq(Word32), s \in Seq(Word32) |->
     << Add32[h[1], s[1]], Add32[h[2], s[2]], Add32[h[3], s[3]], Add32[h[4], s[4]],
        Add32[h[5], s[5]] >>]

\* the blocks from offset on, h = << h0, h1, h2, h3, h4 >>
Sha1Blocks[msg \in Seq(Bytes), offset \in Nat, h \in Seq(Word32)] ==
  IF offset >= Len(msg) THEN h
  ELSE Sha1Blocks[msg, offset + 64,
                  Sha1Sum[h, Sha1Rounds[h, Sha1Schedule[Sha1Block(msg, offset)], 0]]]

\* 0x67452301, 0xEFCDAB89, 0x98BADCFE, 0x10325476, 0xC3D2E1F0
Sha1Initial ==
  << << 26437, 8961 >>, << 61389, 43913 >>, << 39098, 56574 >>,
     << 4146, 21622 >>, << 50130, 57840 >> >>

\* out[0..19] from h0..h4, most significant byte first
Sha1Digest ==
  [h \in Seq(Word32) |->
     [p \in 1..20 |->
        IF p % 2 = 1 THEN h[((p - 1) \div 4) + 1][(((p - 1) % 4) \div 2) + 1] \div 256
        ELSE h[((p - 1) \div 4) + 1][(((p - 1) % 4) \div 2) + 1] % 256]]

\* SHA1Hash(data, len, out)
SHA1Hash == [data \in Seq(Bytes) |-> Sha1Digest[Sha1Blocks[Sha1Padded(data), 0, Sha1Initial]]]

WebSocketGuid ==
  << "2", "5", "8", "E", "A", "F", "A", "5", "-", "E", "9", "1", "4", "-", "4", "7",
     "D", "A", "-", "9", "5", "C", "A", "-", "C", "5", "A", "B", "0", "D", "C", "8",
     "5", "B", "1", "1" >>

\* expected_accept of PerformWebSocketHandshake
AcceptFor(ws_key_text) == Base64Encode[SHA1Hash[BytesOf(ws_key_text \o WebSocketGuid)]]

\* Sec-WebSocket-Key values: the one of the documented example, 16 zero bytes,
\* 16 bytes 0xFF, and one more
SampleKey ==
  << "d", "G", "h", "l", "I", "H", "N", "h", "b", "X", "B", "s", "Z", "S", "B", "u",
     "b", "2", "5", "j", "Z", "Q", "=", "=" >>
ZeroKey ==
  << "A", "A", "A", "A", "A", "A", "A", "A", "A", "A", "A", "A", "A", "A", "A", "A",
     "A", "A", "A", "A", "A", "A", "=", "=" >>
OnesKey ==
  << "/", "/", "/", "/", "/", "/", "/", "/", "/", "/", "/", "/", "/", "/", "/", "/",
     "/", "/", "/", "/", "/", "w", "=", "=" >>
MixedKey ==
  << "x", "3", "J", "J", "H", "M", "b", "D", "L", "1", "E", "z", "L", "k", "h", "9",
     "G", "B", "h", "X", "D", "w", "=", "=" >>

WsKeyTexts == { SampleKey, ZeroKey, OnesKey, MixedKey }

\* the accept value of the documented example
SampleAccept ==
  << "s", "3", "p", "P", "L", "M", "B", "i", "T", "x", "a", "Q", "9", "k", "Y", "G",
     "z", "z", "h", "Z", "R", "b", "K", "+", "x", "O", "o", "=" >>

\* SHA1() of the TLS library on the texts used here: the empty text, texts
\* of 3, 55, 56 and 64 characters, and each key followed by the GUID
LibrarySha1Table ==
  {
    [data |->
       << >>,
     digest |->
       << 218, 57, 163, 238, 94, 107, 75, 13, 50, 85, 191, 239, 149, 96, 24, 144, 175,
          216, 7, 9 >>],
    [data |->
       << "a", "b", "c" >>,
     digest |->
       << 169, 153, 62, 54, 71, 6, 129, 106, 186, 62, 37, 113, 120, 80, 194, 108, 156,
          208, 216, 157 >>],
    [data |->
       << "a", "b", "c", "d", "b", "c", "d", "e", "c", "d", "e", "f", "d", "e", "f", "g",
          "e", "f", "g", "h", "f", "g", "h", "i", "g", "h", "i", "j", "h", "i", "j", "k",
          "i", "j", "k", "l", "j", "k", "l", "m", "k", "l", "m", "n", "l", "m", "n", "o",
          "m", "n", "o", "p", "n", "o", "p", "q" >>,
     digest |->
       << 132, 152, 62, 68, 28, 59, 210, 110, 186, 174, 74, 161, 249, 81, 41, 229, 229,
          70, 112, 241 >>],
    [data |->
       << "a", "a", "a", "a", "a", "a", "a", "a", "a", "a", "a", "a", "a", "a", "a", "a",
          "a", "a", "a", "a", "a", "a", "a", "a", "a", "a", "a", "a", "a", "a", "a", "a",
          "a", "a", "a", "a", "a", "a", "a", "a", "a", "a", "a", "a", "a", "a", "a", "a",
          "a", "a", "a", "a", "a", "a", "a" >>,
     digest |->
       << 193, 200, 187, 220, 34, 121, 110, 40, 192, 225, 81, 99, 210, 8, 153, 182, 86,
          33, 214, 90 >>],
    [data |->
       << "a", "a", "a", "a", "a", "a", "a", "a", "a", "a", "a", "a", "a", "a", "a", "a",
          "a", "a", "a", "a", "a", "a", "a", "a", "a", "a", "a", "a", "a", "a", "a", "a",
          "a", "a", "a", "a", "a", "a", "a", "a", "a", "a", "a", "a", "a", "a", "a", "a",
          "a", "a", "a", "a", "a", "a", "a", "a", "a", "a", "a", "a", "a", "a", "a", "a" >>,
     digest |->
       << 0, 152, 186, 130, 75, 92, 22, 66, 123, 215, 161, 18, 42, 90, 68, 42, 37, 236,
          100, 77 >>],
    [data |->
       << "d", "G", "h", "l", "I", "H", "N", "h", "b", "X", "B", "s", "Z", "S", "B", "u",
          "b", "2", "5", "j", "Z", "Q", "=", "=", "2", "5", "8", "E", "A", "F", "A", "5",
          "-", "E", "9", "1", "4", "-", "4", "7", "D", "A", "-", "9", "5", "C", "A", "-",
          "C", "5", "A", "B", "0", "D", "C", "8", "5", "B", "1", "1" >>,
     digest |->
       << 179, 122, 79, 44, 192, 98, 79, 22, 144, 246, 70, 6, 207, 56, 89, 69, 178, 190,
          196, 234 >>],
    [data |->
       << "A", "A", "A", "A", "A", "A", "A", "A", "A", "A", "A", "A", "A", "A", "A", "A",
          "A", "A", "A", "A", "A", "A", "=", "=", "2", "5", "8", "E", "A", "F", "A", "5",
          "-", "E", "9", "1", "4", "-", "4", "7", "D", "A", "-", "9", "5", "C", "A", "-",
          "C", "5", "A", "B", "0", "D", "C", "8", "5", "B", "1", "1" >>,
     digest |->
       << 32, 37, 254, 98, 171, 250, 234, 76, 96, 51, 65, 92, 89, 162, 214, 148, 82, 240,
          76, 2 >>],
    [data |->
       << "/", "/", "/", "/", "/", "/", "/", "/", "/", "/", "/", "/", "/", "/", "/", "/",
          "/", "/", "/", "/", "/", "w", "=", "=", "2", "5", "8", "E", "A", "F", "A", "5",
          "-", "E", "9", "1", "4", "-", "4", "7", "D", "A", "-", "9", "5", "C", "A", "-",
          "C", "5", "A", "B", "0", "D", "C", "8", "5", "B", "1", "1" >>,
     digest |->
       << 93, 122, 99, 226, 54, 51, 44, 205, 178, 80, 77, 2, 237, 50, 32, 51, 4, 208,
          135, 104 >>],
    [data |->
       << "x", "3", "J", "J", "H", "M", "b", "D", "L", "1", "E", "z", "L", "k", "h", "9",
          "G", "B", "h", "X", "D", "w", "=", "=", "2", "5", "8", "E", "A", "F", "A", "5",
          "-", "E", "9", "1", "4", "-", "4", "7", "D", "A", "-", "9", "5", "C", "A", "-",
          "C", "5", "A", "B", "0", "D", "C", "8", "5", "B", "1", "1" >>,
     digest |->
       << 29, 41, 171, 115, 75, 12, 149, 133, 36, 0, 105, 166, 228, 227, 233, 27, 97,
          218, 25, 105 >>] }

LibrarySHA1(text) == (CHOOSE v \in LibrarySha1Table : v.data = text).digest

\* the base64 BIO of the TLS library (no newlines) on the byte strings used
\* here: lengths 0 to 6 and the digests above
LibraryBase64Table ==
  {
    [data |->
       << >>,
     text |->
       << >>],
    [data |->
       << 102 >>,
     text |->
       << "Z", "g", "=", "=" >>],
    [data |->
       << 102, 111 >>,
     text |->
       << "Z", "m", "8", "=" >>],
    [data |->
       << 102, 111, 111 >>,
     text |->
       << "Z", "m", "9", "v" >>],
    [data |->
       << 102, 111, 111, 98 >>,
     text |->
       << "Z", "m", "9", "v", "Y", "g", "=", "=" >>],
    [data |->
       << 102, 111, 111, 98, 97 >>,
     text |->
       << "Z", "m", "9", "v", "Y", "m", "E", "=" >>],
    [data |->
       << 102, 111, 111, 98, 97, 114 >>,
     text |->
       << "Z", "m", "9", "v", "Y", "m", "F", "y" >>],
    [data |->
       << 0, 255, 254, 128, 63 >>,
     text |->
       << "A", "P", "/", "+", "g", "D", "8", "=" >>],
    [data |->
       << 179, 122, 79, 44, 192, 98, 79, 22, 144, 246, 70, 6, 207, 56, 89, 69, 178, 190,
          196, 234 >>,
     text |->
       << "s", "3", "p", "P", "L", "M", "B", "i", "T", "x", "a", "Q", "9", "k", "Y", "G",
          "z", "z", "h", "Z", "R", "b", "K", "+", "x", "O", "o", "=" >>],
    [data |->
       << 32, 37, 254, 98, 171, 250, 234, 76, 96, 51, 65, 92, 89, 162, 214, 148, 82, 240,
          76, 2 >>,
     text |->
       << "I", "C", "X", "+", "Y", "q", "v", "6", "6", "k", "x", "g", "M", "0", "F", "c",
          "W", "a", "L", "W", "l", "F", "L", "w", "T", "A", "I", "=" >>],
    [data |->
       << 93, 122, 99, 226, 54, 51, 44, 205, 178, 80, 77, 2, 237, 50, 32, 51, 4, 208,
          135, 104 >>,
     text |->
       << "X", "X", "p", "j", "4", "j", "Y", "z", "L", "M", "2", "y", "U", "E", "0", "C",
          "7", "T", "I", "g", "M", "w", "T", "Q", "h", "2", "g", "=" >>],
    [data |->
       << 29, 41, 171, 115, 75, 12, 149, 133, 36, 0, 105, 166, 228, 227, 233, 27, 97,
          218, 25, 105 >>,
     text |->
       << "H", "S", "m", "r", "c", "0", "s", "M", "l", "Y", "U", "k", "A", "G", "m", "m",
          "5", "O", "P", "p", "G", "2", "H", "a", "G", "W", "k", "=" >>] }

LibraryBase64(data) == (CHOOSE v \in LibraryBase64Table : v.data = data).text

\* the texts and byte strings the digest routines are evaluated on
Sha1Texts == { v.data : v \in LibrarySha1Table }

Base64Inputs == { v.data : v \in LibraryBase64Table }

\* accept_key = ws_key + GUID; SHA1Hash; Base64Encode: with the TLS library's
\* routines under HAVE_OPENSSL, with the bundled ones otherwise
Apply_Accept ==
  /\ fn_call.fn = "accept" /\ fn_ret = NoCall
  /\ fn_ret' = [fn |-> "accept",
                expected_accept |->
                  IF have_openssl THEN LibraryBase64(LibrarySHA1(fn_call.key \o WebSocketGuid))
                  ELSE AcceptFor(fn_call.key)]
  /\ UNCHANGED << fn_call, build, parsed, tlsPeer, registry, socket_fd_, ssl_ctx_, ssl_,
                  is_connected_, should_stop_, receive_thread_, send_mutex_, pc, closeRet,
                  ws_key, cur, events, wire, framesRead, calls, sendRet, stages,
                  pinChecks, threadsStarted, hazard >>

\* SHA1Hash(data, len, out) on its own
Apply_SHA1Hash ==
  /\ fn_call.fn = "SHA1Hash" /\ fn_ret = NoCall
  /\ fn_ret' = [fn |-> "SHA1Hash",
                out |-> IF have_openssl THEN LibrarySHA1(fn_call.data)
                        ELSE SHA1Hash[BytesOf(fn_call.data)]]
  /\ UNCHANGED << fn_call, build, parsed, tlsPeer, registry, socket_fd_, ssl_ctx_, ssl_,
                  is_connected_, should_stop_, receive_thread_, send_mutex_, pc, closeRet,
                  ws_key, cur, events, wire, framesRead, calls, sendRet, stages,
                  pinChecks, threadsStarted, hazard >>

\* Base64Encode(data, len) on its own
Apply_Base64Encode ==
  /\ fn_call.fn = "Base64Encode" /\ fn_ret = NoCall
  /\ fn_ret' = [fn |-> "Base64Encode",
                text |-> IF have_openssl THEN LibraryBase64(fn_call.data)
                         ELSE Base64Encode[fn_call.data]]
  /\ UNCHANGED << fn_call, build, parsed, tlsPeer, registry, socket_fd_, ssl_ctx_, ssl_,
                  is_connected_, should_stop_, receive_thread_, send_mutex_, pc, closeRet,
                  ws_key, cur, events, wire, framesRead, calls, sendRet, stages,
                  pinChecks, threadsStarted, hazard >>

\* the opcodes a frame header can carry
FrameOpcodes == 0..15

\* payload lengths on both sides of each boundary of the length encoding
FrameLengths == {0, 1, 125, 126, 65535, 65536, 70000}

\* what CryptoRandomBytes(mask, 4) may produce
Masks == { << 55, 250, 33, 61 >>, << 255, 0, 128, 1 >> }

\* a payload of n bytes that takes every byte value
PayloadOf(n) == SubSeq([i \in 1..n |-> (i * 37 + 91) % 256], 1, n)

FrameCalls ==
  [fn : {"SendFrame"}, opcode : FrameOpcodes,
   payload : {PayloadOf(n) : n \in FrameLengths}, mask : Masks]

\* the messages the application sends: empty, and one that needs the 16-bit
\* length
SendCalls == [fn : {"Send"}, payload : {PayloadOf(0), PayloadOf(200)}, mask : Masks]

\* Send(message) on a connected connection: SendFrame(0x01, message)
Apply_Send ==
  /\ fn_call.fn = "Send" /\ fn_ret = NoCall
  /\ fn_ret' = [fn |-> "Send", frame |-> SendFrame(1, fn_call.payload, fn_call.mask)]
  /\ UNCHANGED << fn_call, build, parsed, tlsPeer, registry, socket_fd_, ssl_ctx_, ssl_,
                  is_connected_, should_stop_, receive_thread_, send_mutex_, pc, closeRet,
                  ws_key, cur, events, wire, framesRead, calls, sendRet, stages,
                  pinChecks, threadsStarted, hazard >>

\* SendFrame(opcode, payload) builds the frame
Apply_SendFrame ==
  /\ fn_call.fn = "SendFrame" /\ fn_ret = NoCall
  /\ fn_ret' = [fn |-> "SendFrame",
                frame |-> SendFrame(fn_call.opcode, fn_call.payload, fn_call.mask)]
  /\ UNCHANGED << fn_call, build, parsed, tlsPeer, registry, socket_fd_, ssl_ctx_, ssl_,
                  is_connected_, should_stop_, receive_thread_, send_mutex_, pc, closeRet,
                  ws_key, cur, events, wire, framesRead, calls, sendRet, stages,
                  pinChecks, threadsStarted, hazard >>

\* ReadFrame(opcode, payload) reads the frame from the transport
Apply_ReadFrame ==
  /\ fn_ret.fn = "SendFrame"
  /\ fn_ret' = [fn |-> "ReadFrame", frame |-> ReadFrame(fn_ret.frame)]
  /\ UNCHANGED << fn_call, build, parsed, tlsPeer, registry, socket_fd_, ssl_ctx_, ssl_,
                  is_connected_, should_stop_, receive_thread_, send_mutex_, pc, closeRet,
                  ws_key, cur, events, wire, framesRead, calls, sendRet, stages,
                  pinChecks, threadsStarted, hazard >>

\* the URLs of the documented examples
UrlChat ==
  << "w", "s", "s", ":", "/", "/", "e", "x", "a", "m", "p", "l", "e", ".", "c", "o", "m", "/", "c", "h", "a", "t" >>
UrlPort ==
  << "w", "s", ":", "/", "/", "h", ":", "8", "0", "8", "0" >>
UrlHttp ==
  << "h", "t", "t", "p", ":", "/", "/", "x" >>

\* URLs a caller may pass: each scheme, with and without port and path, an
\* empty host, an empty or non-numeric port, another scheme, no scheme
ParseUrls ==
  { UrlChat, UrlPort, UrlHttp,
    << "w", "s", "s", ":", "/", "/", "h" >>,
    << "w", "s", ":", "/", "/", "h", "/", "p", "/", "q" >>,
    << "w", "s", "s", ":", "/", "/", "h", ":", "8", "/", "c" >>,
    << "w", "s", ":", "/", "/" >>,
    << "w", "s", "s", ":", "/", "/", "/", "c" >>,
    << "w", "s", ":", "/", "/", ":", "8", "0" >>,
    << "w", "s", ":", "/", "/", ":", "x" >>,
    << "W", "S", ":", "/", "/", "h" >>,
    << "w", "s", ":", "/", "h" >>,
    << >>,
    << "w", "s", ":", "/", "/", "h", ":", "x" >>,
    << "w", "s", ":", "/", "/", "h", "/", "a", ":", "b" >>,
    << "w", "s", "s", ":", "/", "/", "h", ":", "6", "5", "5", "3", "5" >>,
    << "w", "s", ":", "/", "/", "h", ":" >> }

\* Connect up to the opening of the socket, for a URL under evaluation
Apply_ParseUrl == fn_call.fn = "ParseUrl" /\ Connect_ParseUrl

Apply_Resolve == fn_call.fn = "ParseUrl" /\ Connect_Resolve

Apply_Tcp == fn_call.fn = "ParseUrl" /\ Connect_Tcp

\* what the secure random source does in one call: getrandom() fills the
\* buffer; or it does not and /dev/urandom does; or /dev/urandom cannot be
\* opened or a read of it fails
CryptoOutcomes == {"getrandom", "urandom", "fail"}

\* CryptoRandomBytes(buffer, len): true when the buffer was filled
CryptoRandomBytes(outcome) == outcome \in {"getrandom", "urandom"}

\* the values that need random bytes: the handshake key (GenerateWebSocketKey),
\* the mask of a frame (SendFrame) and the connection identifier (GenerateUUID)
RandomUses == {"key", "mask", "id"}

\* the generator the bytes of a value come from: the Linux build asks
\* CryptoRandomBytes and calls InsecureRandomBytes (std::mt19937) when it
\* returned false; the Windows build fills all three from std::mt19937
RandomSource(plat, use, outcome) ==
  IF plat = "windows" THEN "mt19937"
  ELSE IF CryptoRandomBytes(outcome) THEN "crypto" ELSE "mt19937"

RandomCalls == [fn : {"RandomBytes"}, use : RandomUses, crypto : CryptoOutcomes]

\* the random bytes of one key, mask or identifier are produced
Apply_RandomBytes ==
  /\ fn_call.fn = "RandomBytes" /\ fn_ret = NoCall
  /\ fn_ret' = [fn |-> "RandomBytes", use |-> fn_call.use,
                source |-> RandomSource(platform, fn_call.use, fn_call.crypto)]
  /\ UNCHANGED << fn_call, build, parsed, tlsPeer, registry, socket_fd_, ssl_ctx_, ssl_,
                  is_connected_, should_stop_, receive_thread_, send_mutex_, pc, closeRet,
                  ws_key, cur, events, wire, framesRead, calls, sendRet, stages,
                  pinChecks, threadsStarted, hazard >>

\* the digits std::hex prints
HexDigits ==
  << "0", "1", "2", "3", "4", "5", "6", "7", "8", "9", "a", "b", "c", "d", "e", "f" >>

\* ss << std::setfill('0') << std::setw(2) << byte
Hex2(byte) == << HexDigits[(byte \div 16) + 1], HexDigits[(byte % 16) + 1] >>

\* random_bytes with the version and variant bits set (0-based bytes 6 and 8)
UuidBytes(random_bytes) ==
  [random_bytes EXCEPT ![7] = BitOr(BitAnd(@, 15, 8), 64, 8),
                       ![9] = BitOr(BitAnd(@, 63, 8), 128, 8)]

\* the loop of the Linux GenerateUUID from 0-based byte i on
RECURSIVE UuidFrom(_, _)
UuidFrom(bytes, i) ==
  IF i >= 16 THEN << >>
  ELSE (IF i \in {4, 6, 8, 10} THEN << "-" >> ELSE << >>)
       \o Hex2(bytes[i + 1]) \o UuidFrom(bytes, i + 1)

\* GenerateUUID of the Linux build on its 16 random bytes
GenerateUUID_Linux(random_bytes) == UuidFrom(UuidBytes(random_bytes), 0)

\* the hexadecimal digits of the k-th 32-bit value a generator yields, most
\* significant first
Draw32(random, k) ==
  LET b == SubSeq(random, 4 * k - 3, 4 * k)
  IN << b[1] \div 16, b[1] % 16, b[2] \div 16, b[2] % 16,
        b[3] \div 16, b[3] % 16, b[4] \div 16, b[4] % 16 >>

\* ss << std::hex << value: no leading zeros, and one digit for zero
RECURSIVE HexUnpadded(_)
HexUnpadded(nibbles) ==
  IF Len(nibbles) > 1 /\ nibbles[1] = 0 THEN HexUnpadded(Tail(nibbles))
  ELSE [i \in 1..Len(nibbles) |-> HexDigits[nibbles[i] + 1]]

\* GenerateUUID of the Windows build on six values of its std::mt19937:
\* dis(gen), dis(gen) & 0xFFFF, (dis(gen) & 0x0FFF) | 0x4000,
\* (dis(gen) & 0x3FFF) | 0x8000, then two values printed one after the other
GenerateUUID_Windows(random) ==
  LET d(k) == Draw32(random, k)
  IN HexUnpadded(d(1)) \o << "-" >>
     \o HexUnpadded(SubSeq(d(2), 5, 8)) \o << "-" >>
     \o HexUnpadded(<< 4 >> \o SubSeq(d(3), 6, 8)) \o << "-" >>
     \o HexUnpadded(<< 8 + (d(4)[5] % 4) >> \o SubSeq(d(4), 6, 8)) \o << "-" >>
     \o HexUnpadded(d(5)) \o HexUnpadded(d(6))

\* what the generators can yield for one identifier: three patterns, with the
\* two bytes that carry the version and the variant varied
UuidPatterns ==
  { [i \in 1..24 |-> 0], [i \in 1..24 |-> 255], [i \in 1..24 |-> (i * 37 + 91) % 256] }
UuidSpecialBytes == {0, 15, 64, 79, 128, 191, 192, 255}
UuidRandoms ==
  { [base EXCEPT ![7] = b6, ![9] = b8] :
      base \in UuidPatterns, b6 \in UuidSpecialBytes, b8 \in UuidSpecialBytes }

UuidCalls == [fn : {"GenerateUUID"}, random : UuidRandoms]

\* GenerateUUID() formats an identifier
Apply_GenerateUUID ==
  /\ fn_call.fn = "GenerateUUID" /\ fn_ret = NoCall
  /\ fn_ret' = [fn |-> "GenerateUUID",
                id |-> IF platform = "windows"
                       THEN GenerateUUID_Windows(fn_call.random)
                       ELSE GenerateUUID_Linux(SubSeq(fn_call.random, 1, 16))]
  /\ UNCHANGED << fn_call, build, parsed, tlsPeer, registry, socket_fd_, ssl_ctx_, ssl_,
                  is_connected_, should_stop_, receive_thread_, send_mutex_, pc, closeRet,
                  ws_key, cur, events, wire, framesRead, calls, sendRet, stages,
                  pinChecks, threadsStarted, hazard >>

\* a frame as a server writes it: FIN, the opcode, a 7-bit length, no mask
ServerFrame(opcode, payload) == << 128 + opcode, Len(payload) >> \o payload

\* what the server writes after the response headers: one or two frames
ServerFrames ==
  { << ServerFrame(1, << 65 >>) >>,
    << ServerFrame(1, << 65 >>), ServerFrame(2, << 66, 67 >>) >>,
    << ServerFrame(9, << >>), ServerFrame(1, << 68 >>) >>,
    << ServerFrame(2, << 129, 1 >>), ServerFrame(1, << 69 >>) >> }

RECURSIVE Concat(_)
Concat(seqs) == IF seqs = << >> THEN << >> ELSE Head(seqs) \o Concat(Tail(seqs))

\* the bytes ReadFrame takes from the transport for the frame it returns
ReadFrameTaken(data) ==
  LET len7 == BitAnd(data[2], 127, 8)
  IN 2 + (IF len7 = 126 THEN 2 ELSE IF len7 = 127 THEN 8 ELSE 0)
       + (IF BitAnd(data[2], 128, 8) # 0 THEN 4 ELSE 0) + ReadFrame(data).payload_len

\* the server's response and frames, and how many of the frames' bytes the
\* transport delivers in the same read as the response
StreamCalls ==
  UNION { [fn : {"stream"}, frames : {fs}, same_read : 0..Len(Concat(fs))] :
            fs \in ServerFrames }

\* PerformWebSocketHandshake: one read of up to 4095 bytes into a local
\* buffer, which is searched for the status and the accept key and dropped;
\* what stays in the transport is what that read did not return
Apply_HandshakeRead ==
  /\ fn_call.fn = "stream" /\ fn_ret = NoCall
  /\ fn_ret' = [fn |-> "handshake", decoded |-> << >>,
                transport |-> SubSeq(Concat(fn_call.frames), fn_call.same_read + 1,
                                     Len(Concat(fn_call.frames)))]
  /\ UNCHANGED << fn_call, build, parsed, tlsPeer, registry, socket_fd_, ssl_ctx_, ssl_,
                  is_connected_, should_stop_, receive_thread_, send_mutex_, pc, closeRet,
                  ws_key, cur, events, wire, framesRead, calls, sendRet, stages,
                  pinChecks, threadsStarted, hazard >>

\* ReceiveLoop: ReadFrame on what the transport holds; a frame is taken from
\* the transport and kept, a failed read ends the loop
Apply_LoopRead ==
  /\ fn_ret.fn \in {"handshake", "loop"}
  /\ LET frame == ReadFrame(fn_ret.transport)
     IN IF frame.ok
        THEN fn_ret' = [fn |-> "loop",
                        decoded |-> Append(fn_ret.decoded,
                                           [opcode |-> frame.opcode, payload |-> frame.payload]),
                        transport |-> SubSeq(fn_ret.transport,
                                             ReadFrameTaken(fn_ret.transport) + 1,
                                             Len(fn_ret.transport))]
        ELSE fn_ret' = [fn |-> "loop_done", decoded |-> fn_ret.decoded,
                        transport |-> fn_ret.transport]
  /\ UNCHANGED << fn_call, build, parsed, tlsPeer, registry, socket_fd_, ssl_ctx_, ssl_,
                  is_connected_, should_stop_, receive_thread_, send_mutex_, pc, closeRet,
                  ws_key, cur, events, wire, framesRead, calls, sendRet, stages,
                  pinChecks, threadsStarted, hazard >>

HelperInit ==
  /\ platform \in {"linux", "windows"}
  /\ have_openssl \in BOOLEAN
  /\ pins_ = <<>>
  /\ Constructed
  /\ fn_ret = NoCall
  /\ \/ fn_call \in FrameCalls /\ url_ = UrlPort
     \/ fn_call \in SendCalls /\ url_ = UrlPort
     \/ fn_call = [fn |-> "ParseUrl"] /\ url_ \in ParseUrls
     \/ fn_call \in [fn : {"accept"}, key : WsKeyTexts] /\ url_ = UrlPort
     \/ fn_call \in [fn : {"SHA1Hash"}, data : Sha1Texts] /\ url_ = UrlPort
     \/ fn_call \in [fn : {"Base64Encode"}, data : Base64Inputs] /\ url_ = UrlPort
     \/ fn_call \in RandomCalls /\ url_ = UrlPort
     \/ fn_call \in UuidCalls /\ url_ = UrlPort
     \/ fn_call \in StreamCalls /\ url_ = UrlPort

HelperNext ==
  \/ Apply_Send
  \/ Apply_SendFrame
  \/ Apply_ReadFrame
  \/ Apply_ParseUrl
  \/ Apply_Resolve
  \/ Apply_Tcp
  \/ Apply_Accept
  \/ Apply_SHA1Hash
  \/ Apply_Base64Encode
  \/ Apply_RandomBytes
  \/ Apply_GenerateUUID
  \/ Apply_HandshakeRead
  \/ Apply_LoopRead

HelperSpec == HelperInit /\ [][HelperNext]_vars

\* C22: for every opcode and every payload of length 0, 1, 125, 126, 65535,
\* 65536 and 70000, ReadFrame applied to the bytes SendFrame produced returns
\* the original opcode, the original length and the original payload bytes
C22_FrameRoundTrip ==
  fn_ret.fn = "ReadFrame" =>
    /\ fn_ret.frame.ok
    /\ fn_ret.frame.opcode = fn_call.opcode
    /\ fn_ret.frame.payload_len = Len(fn_call.payload)
    /\ fn_ret.frame.payload = fn_call.payload

\* a 65536-byte binary frame has been encoded and decoded
C22_Witness ==
  /\ fn_ret.fn = "ReadFrame" /\ fn_ret.frame.ok
  /\ fn_call.opcode = 2 /\ Len(fn_call.payload) = 65536
  /\ Len(fn_ret.frame.payload) = 65536 /\ fn_ret.frame.payload[65536] = fn_call.payload[65536]

\* the parts of a URL as the documentation names them
SchemeOf(url) ==
  IF IsPrefix(WSS, url) THEN "wss" ELSE IF IsPrefix(WS, url) THEN "ws" ELSE "other"

AfterScheme(url) ==
  SubSeq(url, (IF SchemeOf(url) = "wss" THEN 6 ELSE 5) + 1, Len(url))

AuthorityOf(url) ==
  LET rest == AfterScheme(url)
  IN IF Find(rest, "/") = npos THEN rest ELSE SubSeq(rest, 1, Find(rest, "/"))

PathOf(url) ==
  LET rest == AfterScheme(url)
  IN IF Find(rest, "/") = npos THEN << "/" >> ELSE SubSeq(rest, Find(rest, "/") + 1, Len(rest))

HostOf(url) ==
  LET auth == AuthorityOf(url)
  IN IF Find(auth, ":") = npos THEN auth ELSE SubSeq(auth, 1, Find(auth, ":"))

HasPort(url) == Find(AuthorityOf(url), ":") # npos

PortText(url) ==
  LET auth == AuthorityOf(url) IN SubSeq(auth, Find(auth, ":") + 2, Len(auth))

IsNumber(text) == text # <<>> /\ \A i \in 1..Len(text) : IsDigit(text[i])

\* Connect returned false after ParseUrl with the one event "Invalid URL",
\* and neither getaddrinfo nor socket() was reached
InvalidUrlReported ==
  /\ pc["conn"] = "ret_false"
  /\ events = << Event("Error", "Invalid URL") >>
  /\ stages = << "parse" >>
  /\ socket_fd_ = "invalid"

\* C23: wss:// gives TLS and default port 443, ws:// gives no TLS and default
\* port 80, an explicit :port overrides the default, the path is everything
\* from the first '/' after the authority and '/' when absent; any other scheme
\* or an empty host makes Connect emit the one Error event "Invalid URL" without
\* resolving DNS or opening a socket. wss://example.com/chat gives
\* (example.com, 443, /chat, TLS), ws://h:8080 gives (h, 8080, /, no TLS) and
\* http://x fails.
C23_UrlParsing ==
  (fn_call.fn = "ParseUrl" /\ stages # <<>>) =>
    /\ IF SchemeOf(url_) = "other" \/ HostOf(url_) = <<>>
       THEN InvalidUrlReported
       ELSE /\ use_tls_ = (SchemeOf(url_) = "wss")
            /\ host_ = HostOf(url_)
            /\ path_ = PathOf(url_)
            /\ ~HasPort(url_) => port_ = (IF SchemeOf(url_) = "wss" THEN 443 ELSE 80)
            /\ (HasPort(url_) /\ IsNumber(PortText(url_))) =>
                 port_ = DigitsValue(PortText(url_), 0)
    /\ url_ = UrlChat =>
         /\ host_ = << "e", "x", "a", "m", "p", "l", "e", ".", "c", "o", "m" >>
         /\ port_ = 443 /\ path_ = << "/", "c", "h", "a", "t" >> /\ use_tls_
    /\ url_ = UrlPort =>
         /\ host_ = << "h" >> /\ port_ = 8080 /\ path_ = << "/" >> /\ ~use_tls_
    /\ url_ = UrlHttp => InvalidUrlReported

(***************************************************************************)
(* The plugin's close handler called with any argument.                    *)
(***************************************************************************)
\* the connectionId argument of the method call: the identifier of the
\* connection, an identifier no connection was created with, or a value that
\* is not a string
CloseArgs ==
  { [string |-> TRUE, id |-> ConnId], [string |-> TRUE, id |-> "id2"],
    [string |-> FALSE, id |-> ""] }

\* variant: an identifier that is not in the registry is reported as an error
HandleClose_NoEntry_NotFound ==
  /\ pc["main"] = "idle"
  /\ calls < MaxCalls
  /\ IdKnown
  /\ mutex_ = "free"
  /\ calls' = calls + 1
  /\ \E arg \in CloseArgs :
       /\ arg.string => arg.id \notin connections_
       /\ fn_call' = [fn |-> "close", arg |-> arg]
       /\ fn_ret' = [fn |-> "close",
                     reply |-> IF arg.string THEN "NOT_CONNECTED" ELSE "INVALID_ARGS"]
  /\ UNCHANGED << build, parsed, socket_fd_, ssl_ctx_, ssl_, is_connected_,
                  should_stop_, receive_thread_, send_mutex_, registry, pc, closeRet,
                  ws_key, cur, tlsPeer, events, wire, framesRead, sendRet, stages,
                  pinChecks, threadsStarted, hazard >>

\* handle_close / HandleClose when RemoveConnection finds no entry, or when
\* the argument is refused before RemoveConnection is called
HandleClose_NoEntry ==
  /\ pc["main"] = "idle"
  /\ calls < MaxCalls
  /\ IdKnown
  /\ mutex_ = "free"
  /\ calls' = calls + 1
  /\ \E arg \in CloseArgs :
       /\ arg.string => arg.id \notin connections_
       /\ fn_call' = [fn |-> "close", arg |-> arg]
       /\ fn_ret' = [fn |-> "close",
                     reply |-> IF arg.string THEN "success" ELSE "INVALID_ARGS"]
  /\ UNCHANGED << build, parsed, socket_fd_, ssl_ctx_, ssl_, is_connected_,
                  should_stop_, receive_thread_, send_mutex_, registry, pc, closeRet,
                  ws_key, cur, tlsPeer, events, wire, framesRead, sendRet, stages,
                  pinChecks, threadsStarted, hazard >>

CloseCallNext ==
  \/ Next
  \/ HandleClose_NoEntry

CloseCallSpec == Init /\ [][CloseCallNext]_vars

\* a call of the close handler that found no entry or refused its argument
CloseCallStep ==
  /\ calls' = calls + 1 /\ pc' = pc /\ sendRet' = sendRet
  /\ fn_call'.fn = "close"

C25_AcceptValue ==
  /\ fn_ret.fn = "accept" =>
       /\ fn_ret.expected_accept = LibraryBase64(LibrarySHA1(fn_call.key \o WebSocketGuid))
       /\ fn_call.key = SampleKey => fn_ret.expected_accept = SampleAccept
  /\ fn_ret.fn = "SHA1Hash" => fn_ret.out = LibrarySHA1(fn_call.data)
  /\ fn_ret.fn = "Base64Encode" => fn_ret.text = LibraryBase64(fn_call.data)

\* the build without the TLS library has computed the accept value of the
\* documented key with its own SHA-1 and base64
C25_Witness ==
  /\ ~have_openssl /\ fn_call.fn = "accept" /\ fn_call.key = SampleKey
  /\ fn_ret.fn = "accept" /\ fn_ret.expected_accept = SampleAccept

(***************************************************************************)
(* The program with each frame the receive loop reads kept for reference.  *)
(***************************************************************************)
DispatchNext ==
  \/ NextButFrame
  \/ Recv_Frame_Traced

DispatchSpec == Init /\ [][DispatchNext]_vars

\* the receive loop took the frame fn_ret' from ReadFrame and dispatched it
DispatchStep ==
  /\ framesRead' = framesRead + 1
  /\ fn_ret'.fn = "ReadFrame"
  /\ fn_ret'.frame_no = framesRead'

\* C26: a frame with opcode 0x1 or 0x2 produces exactly one Message event with
\* that frame's payload; opcode 0x8 sets the state to not connected, produces
\* Disconnected and ends the loop; opcode 0xA and every unknown opcode produce
\* no event and no outbound frame, and the loop goes on to the next frame
C26_OpcodeDispatch ==
  [][/\ pc["recv"] = "done" =>
          /\ pc'["recv"] \in {"done", "aborted", "crashed"}
          /\ framesRead' = framesRead
     /\ DispatchStep =>
          /\ fn_ret'.opcode \in {1, 2} =>
               /\ events' = Append(events, Event("Message", fn_ret'.payload))
               /\ is_connected_' = is_connected_ /\ wire' = wire
               /\ pc'["recv"] = "loop"
          /\ fn_ret'.opcode = 8 =>
               /\ ~is_connected_'
               /\ events' = Append(events, Event("Disconnected", ""))
               /\ wire' = wire
               /\ pc'["recv"] = "done"
          /\ fn_ret'.opcode \notin {1, 2, 8, 9} =>
               /\ events' = events /\ wire' = wire
               /\ is_connected_' = is_connected_
               /\ pc'["recv"] = "loop"]_vars

\* a pong frame has been read after the connection was established and the
\* loop is back at its test with no event but Connected
C26_Witness ==
  /\ fn_ret.fn = "ReadFrame" /\ fn_ret.opcode = 10
  /\ pc["recv"] = "loop" /\ events = << Event("Connected", "") >>
  /\ Len(wire) = 1

\* the opcode a call of SendFrame was given
OpcodeGiven == IF fn_call.fn = "Send" THEN 1 ELSE fn_call.opcode

\* the bytes of a frame before its mask, for a payload of n bytes
HeaderLen(n) == IF n <= 125 THEN 2 ELSE IF n <= 65535 THEN 4 ELSE 10

\* C27: every frame SendFrame builds has FIN=1 and the given opcode in byte 0
\* and the mask bit in byte 1; the length n is n itself when n <= 125, marker
\* 126 and n in 2 bytes big-endian when 126 <= n <= 65535, marker 127 and n in
\* 8 bytes big-endian otherwise; then come the 4 bytes of the mask drawn for
\* this frame and the payload with byte i XORed with mask[i mod 4]; Send gives
\* opcode 0x1
C27_FrameLayout ==
  fn_ret.fn \in {"SendFrame", "Send"} =>
    LET f == fn_ret.frame
        data == fn_call.payload
        n == Len(fn_call.payload)
        h == HeaderLen(n)
    IN /\ f[1] = 128 + OpcodeGiven
       /\ fn_call.fn = "Send" => f[1] = 129
       /\ f[2] >= 128
       /\ n <= 125 => f[2] = 128 + n
       /\ (126 <= n /\ n <= 65535) => (f[2] = 128 + 126 /\ f[3] * 256 + f[4] = n)
       /\ n > 65535 =>
            /\ f[2] = 128 + 127
            /\ f[3] = 0 /\ f[4] = 0 /\ f[5] = 0 /\ f[6] = 0
            /\ ((f[7] * 256 + f[8]) * 256 + f[9]) * 256 + f[10] = n
       /\ SubSeq(f, h + 1, h + 4) = fn_call.mask
       /\ Len(f) = h + 4 + n
       /\ \A i \in 1..n :
            f[h + 4 + i] = Xor8[data[i]][fn_call.mask[((i - 1) % 4) + 1]]

\* a ping-opcode frame of 65536 bytes has been built with the 64-bit length
C27_Witness ==
  /\ fn_ret.fn = "SendFrame" /\ fn_call.opcode = 9
  /\ Len(fn_call.payload) = 65536
  /\ fn_ret.frame[2] = 255 /\ fn_ret.frame[8] = 1 /\ Len(fn_ret.frame) = 65550

\* the connection with its handshake reads kept
HandshakeNext ==
  \/ NextButReads
  \/ Recv_Frame
  \/ Connect_WsRecv_Traced

HandshakeSpec == Init /\ [][HandshakeNext]_vars

\* the step in which PerformWebSocketHandshake reads the response and decides
HandshakeReadStep ==
  pc["conn"] = "ws_recv" /\ pc'["conn"] \in {"connected", "close_begin"}

\* the response read has the status line HTTP/1.1 101 and contains the accept
\* value of the key
ResponseAcceptable(read) ==
  /\ read.received > 0
  /\ read.response[1][1] = "HTTP/1.1 101"
  /\ \E i \in 1..Len(read.response) :
       read.response[i][Len(read.response[i])] = ExpectedAccept(read.key)

\* C28: the handshake succeeds only if the response read has the status line
\* HTTP/1.1 101 and contains the accept value expected for the key sent; a
\* failed or empty read, another status line, or a missing or wrong accept
\* value make it fail with one Error event, and Connect goes on to Close()
C28_HandshakeOnlyOn101AndAccept ==
  [][HandshakeReadStep =>
       /\ pc'["conn"] = "connected" => ResponseAcceptable(fn_ret')
       /\ ~ResponseAcceptable(fn_ret') =>
            /\ pc'["conn"] = "close_begin" /\ closeRet'["conn"] = "ret_false"
            /\ Len(events') = Len(events) + 1
            /\ events'[Len(events')].type = "Error"]_vars

\* C29: every handshake key, frame mask and connection identifier is drawn
\* from the cryptographically secure source, and from the non-cryptographic
\* generator only when the secure source reported failure, in both builds
C29_SecureRandomUnlessItFailed ==
  fn_ret.fn = "RandomBytes" =>
    \/ fn_ret.source = "crypto"
    \/ fn_ret.source = "mt19937" /\ ~CryptoRandomBytes(fn_call.crypto)

\* C30: whatever the random bytes, the identifier has the UUID v4 layout: 36
\* characters, hexadecimal groups of 8-4-4-4-12 separated by '-', the first
\* digit of the third group 4, the two top bits of the fourth group binary 10
\* (its first digit 8, 9, a or b); in both builds
C30_UuidV4Layout ==
  fn_ret.fn = "GenerateUUID" =>
    LET id == fn_ret.id
    IN /\ Len(id) = 36
       /\ \A i \in 1..36 :
            IF i \in {9, 14, 19, 24} THEN id[i] = "-"
            ELSE \E d \in 1..16 : id[i] = HexDigits[d]
       /\ id[15] = "4"
       /\ id[20] \in {"8", "9", "a", "b"}

\* C31: a connection created with a non-empty pin set never reaches Connected
\* without a pin match, whatever the scheme of its URL: pins on a ws:// URL do
\* not let the connection be established unpinned
C31_PinnedWhateverTheScheme ==
  pins_ # <<>> => (HasEvent("Connected") => SomeCertPinned)

\* a step in which a thread writes a frame to, or reads a frame from, the
\* transport: the write of Send, the ReadFrame of the receive loop, its pong
TransportUseStep ==
  \/ pc["main"] = "send_frame" /\ pc'["main"] = "idle"
  \/ pc["recv"] = "read" /\ pc'["recv"] \in {"loop", "done", "pong_lock", "switch"}
  \/ pc["recv"] = "pong_frame" /\ pc'["recv"] = "loop"

\* C32: no thread reads from or writes to the socket or TLS session of a
\* connection after Close has released it: the write of a Send that passed the
\* connected test, and every read and pong of the receive loop, find the
\* socket open and, on a TLS connection, the session live
C32_NoTransportUseAfterClose ==
  [][TransportUseStep => TransportLive]_vars

\* the registry and one connection used by the handlers' thread and by a
\* thread that creates connections, on a URL that connects
\* the timeout of a connect call that names none
DefaultTimeoutMs == 30000

\* the timeoutMs argument of the connect call
ConnectCalls == [fn : {"connect"}, timeoutMs : {0, DefaultTimeoutMs}]

\* the struct timeval Connect passes for SO_RCVTIMEO and SO_SNDTIMEO
SocketTimeout(timeout_ms) ==
  [tv_sec |-> timeout_ms \div 1000, tv_usec |-> (timeout_ms % 1000) * 1000]

\* a receive timeout of zero leaves the socket without one: a read waits until
\* bytes arrive or the connection ends
ReadWaitsForever(tv) == tv.tv_sec = 0 /\ tv.tv_usec = 0

\* variant: a read that times out ends the loop without the callback
Recv_IdleRead_Silent ==
  /\ pc["recv"] = "read"
  /\ TransportLive
  /\ fn_call.fn = "connect"
  /\ IF ReadWaitsForever(SocketTimeout(fn_call.timeoutMs))
     THEN /\ fn_ret' = [fn |-> "ReadFrame", result |-> "waiting", stop |-> should_stop_]
          /\ UNCHANGED << pc, is_connected_, events >>
     ELSE /\ fn_ret' = [fn |-> "ReadFrame", result |-> "timed_out", stop |-> should_stop_]
          /\ is_connected_' = (is_connected_ /\ should_stop_)
          /\ events' = events
          /\ Goto("recv", "done")
  /\ Touch
  /\ UNCHANGED << fn_call, build, parsed, socket_fd_, ssl_ctx_, ssl_, should_stop_,
                  receive_thread_, send_mutex_, registry, closeRet, ws_key, cur,
                  tlsPeer, wire, framesRead, calls, sendRet, stages, pinChecks,
                  threadsStarted >>

\* ReceiveLoop at ReadFrame while the peer stays silent for timeoutMs: with a
\* receive timeout on the socket the read of the header returns short,
\* ReadFrame returns false and the loop reports Disconnected (unless a Close
\* was requested) and ends; without one the read goes on waiting
Recv_IdleRead ==
  /\ pc["recv"] = "read"
  /\ TransportLive
  /\ fn_call.fn = "connect"
  /\ IF ReadWaitsForever(SocketTimeout(fn_call.timeoutMs))
     THEN /\ fn_ret' = [fn |-> "ReadFrame", result |-> "waiting", stop |-> should_stop_]
          /\ UNCHANGED << pc, is_connected_, events >>
     ELSE /\ fn_ret' = [fn |-> "ReadFrame", result |-> "timed_out", stop |-> should_stop_]
          /\ IF ~should_stop_
             THEN is_connected_' = FALSE /\ Emit("Disconnected", "")
             ELSE UNCHANGED << is_connected_, events >>
          /\ Goto("recv", "done")
  /\ Touch
  /\ UNCHANGED << fn_call, build, parsed, socket_fd_, ssl_ctx_, ssl_, should_stop_,
                  receive_thread_, send_mutex_, registry, closeRet, ws_key, cur,
                  tlsPeer, wire, framesRead, calls, sendRet, stages, pinChecks,
                  threadsStarted >>

\* a connection made by a connect call that carries its timeout
IdleInit ==
  /\ platform \in {"linux", "windows"}
  /\ have_openssl = TRUE
  /\ url_ \in { << "w", "s", "s", ":", "/", "/", "h", ":", "8", "/", "c" >>,
                << "w", "s", ":", "/", "/", "h" >> }
  /\ pins_ = << >>
  /\ Constructed
  /\ fn_call \in ConnectCalls /\ fn_ret = NoCall

IdleNext ==
  \/ Next
  \/ Recv_IdleRead

IdleSpec == IdleInit /\ [][IdleNext]_vars

LockInit ==
  /\ Init
  /\ platform = "linux" /\ have_openssl
  /\ url_ = << "w", "s", "s", ":", "/", "/", "h", ":", "8", "/", "c" >>
  /\ pins_ = << >>

LockSpec == LockInit /\ [][ManagerNext]_vars

\* the thread that thread t is blocked on, or "none": the holder of the send
\* lock t stands before, the holder of the registry lock a CreateConnection
\* stands before, the receive thread a Close is joining
WaitsFor(t) ==
  IF pc[t] \in {"send_lock", "close_lock", "pong_lock"} /\ send_mutex_ # "free"
  THEN send_mutex_
  ELSE IF pc[t] = "create_lock" /\ mutex_ # "free" THEN mutex_
  ELSE IF pc[t] = "close_join" /\ receive_thread_ = "joinable" /\ pc["recv"] # "done"
  THEN "recv"
  ELSE "none"

\* following the waits from t ends at a thread that can run within n steps
RECURSIVE WaitEnds(_, _)
WaitEnds(t, n) ==
  IF WaitsFor(t) = "none" THEN TRUE
  ELSE IF n = 0 THEN FALSE
  ELSE WaitEnds(WaitsFor(t), n - 1)

\* C33: no interleaving of the registry operations, Connect, Send, Close and
\* the receive loop reaches a deadlock: the waits of the threads for the
\* registry lock, the send lock and the end of the receive thread never form
\* a cycle, so no thread that holds a lock waits for a thread that waits for
\* that lock
C33_NoDeadlock ==
  \A t \in Threads : WaitEnds(t, Cardinality(Threads))

\* a Create stands before the registry lock that a Remove holds while it
\* waits in join() for the receive thread, which is reading
C33_Witness ==
  /\ pc["aux"] = "create_lock" /\ mutex_ = "main"
  /\ pc["main"] = "close_join" /\ WaitsFor("main") = "recv"
  /\ pc["recv"] = "read"

\* a Close() called from a thread other than the receive thread has returned:
\* the one RemoveConnection calls (the caller is at the erase, in the
\* destructor's Close, or done), or the one Connect calls after a failed
\* WebSocket handshake
CloseHasReturned ==
  \/ pc["main"] = "erase"
  \/ closeRet["main"] = "destroy"
  \/ closeRet["conn"] = "ret_false" /\ pc["conn"] = "ret_false"

\* C34: after a Close called from a thread other than the receive thread has
\* returned, no event of any type is emitted for the connection, also when the
\* Close ran while Connect was in progress
C34_NoEventAfterClose ==
  [][CloseHasReturned => events' = events]_vars

\* a terminal event (Disconnected, Error, PinningFailed) has been emitted
TerminalEmitted == \E i \in 1..Len(events) : events[i].type \in Terminal

\* C35: no event follows a terminal event: once the connection has emitted
\* Disconnected, Error or PinningFailed it emits no event of any type, so at
\* most one terminal event is emitted, whatever the interleaving of the
\* receive loop with Close
C35_NoEventAfterTerminal ==
  [][TerminalEmitted => events' = events]_vars

\* the receive loop has reported the close frame of the peer, and the caller's
\* Close has then run to its end on the ended loop
C35_Witness ==
  /\ events = << Event("Connected", ""), Event("Disconnected", "") >>
  /\ pc["recv"] = "done" /\ receive_thread_ = "joined"
  /\ pc["main"] = "erase"

\* C36: when the connect operation of the boundary has reported failure
\* (CONNECTION_FAILED, without an identifier), the registry no longer holds
\* the connection created for the attempt
C36_FailedConnectLeavesNoEntry ==
  (fn_ret.fn = "connect" /\ fn_ret.reply = "CONNECTION_FAILED") =>
    ConnId \notin connections_

\* the opcode and payload of each frame the server wrote
FramesSent(frames) ==
  [i \in 1..Len(frames) |-> [opcode |-> frames[i][1] - 128,
                             payload |-> SubSeq(frames[i], 3, Len(frames[i]))]]

\* C37: when the receive loop has read all that the server sent after its
\* handshake response, it has decoded exactly the frames the server wrote, once
\* each and in order, however many of their bytes arrived in the same
\* transport read as the response
C37_FramesAfterHandshakeDecodedOnce ==
  fn_ret.fn = "loop_done" => fn_ret.decoded = FramesSent(fn_call.frames)

\* a recognised scheme, a non-empty host, and after ':' a port text that is
\* empty or does not start with a digit
PortTextNotANumber(url) ==
  LET auth == UrlAuthority(UrlScheme(url).rest)
      pp == Find(auth, ":")
  IN /\ UrlScheme(url).ok
     /\ pp # npos /\ pp > 0
     /\ LET text == SubstrFrom(auth, pp + 1)
        IN text = << >> \/ ~IsDigit(Head(text))

\* C38: once Connect has parsed a URL with a recognised scheme, a non-empty
\* host and a port text that is empty or not a number, it has returned false
\* with exactly one Error event; it has not ended abnormally without an event
C38_BadPortFailsWithOneError ==
  (PortTextNotANumber(url_) /\ stages # << >>) =>
     /\ pc["conn"] = "ret_false"
     /\ Len(events) = 1 /\ events[1].type = "Error"

\* C39: after Connect has returned false, at whichever stage it failed, the
\* connection owns no open socket, no TLS session or context and no joinable
\* receive thread
C39_FailedConnectOwnsNothing == pc["conn"] = "ret_false" => NothingOwned

\* Connect returned false after the TLS session had been set up: the pin check
\* rejected the server's certificates
C39_Witness ==
  /\ pc["conn"] = "ret_false"
  /\ HasEvent("PinningFailed") /\ "pin" \in { stages[i] : i \in 1..Len(stages) }
  /\ NothingOwned

\* the Disconnected events emitted so far
DisconnectedCount == Cardinality({ i \in 1..Len(events) : events[i].type = "Disconnected" })

\* the peer stayed silent for the timeout of the connect call while the loop
\* was reading, and no Close had been requested
PeerStayedSilent == fn_ret.fn = "ReadFrame" /\ ~fn_ret.stop

\* C40: once a connected peer has sent nothing for the configured timeout while
\* neither side closed the connection, the pending frame read has failed, the
\* state is not connected and the loop has ended with one Disconnected event
C40_IdleReadEndsLoop ==
  PeerStayedSilent =>
    /\ fn_ret.result = "timed_out"
    /\ ~is_connected_
    /\ pc["recv"] # "read"
    /\ DisconnectedCount = 1

\* C40, for a timeout greater than zero: a silent peer makes the pending read
\* fail after the timeout, and the loop ends not connected with one
\* Disconnected event; a timeout of zero sets no receive timeout
C40_IdleReadEndsLoop_PositiveTimeout ==
  (PeerStayedSilent /\ fn_call.timeoutMs > 0) =>
    /\ fn_ret.result = "timed_out"
    /\ ~is_connected_
    /\ pc["recv"] # "read"
    /\ DisconnectedCount = 1

\* the loop ended on a timed-out read, right after the connection was made
C40_Witness ==
  /\ PeerStayedSilent /\ fn_ret.result = "timed_out"
  /\ fn_call.timeoutMs = DefaultTimeoutMs
  /\ events = << Event("Connected", ""), Event("Disconnected", "") >>
  /\ pc["recv"] = "done"

====
